---- MODULE Spec2Model ----
(***************************************************************************)
(* The change-set engine of drive: the difference classifier and the       *)
(* Operation of a Change, the directory merger, the recursive change-list  *)
(* resolver, the conflict resolver and the Push run that strings them      *)
(* together in front of the executor.                                      *)
(*                                                                         *)
(* Times are counted in half-second ticks, so that time.Round(Second) and  *)
(* Time.Unix() are different functions of a time: Unix truncates, Round    *)
(* rounds half up.  Bit masks (CrudValue, the Differ* mask) are sets of    *)
(* bit names, & is intersection and | is union.                            *)
(***************************************************************************)
EXTENDS Integers, Sequences, FiniteSets, TLC

(***************************************************************************)
(* Bounds of the model.                                                    *)
(***************************************************************************)
\* file modification times range over the seconds 1..MaxSecs
MaxSecs == 2
\* file sizes range over 1..MaxSize bytes
MaxSize == 2
\* at most MaxDup remote children of one directory carry the same name
MaxDup == 2
\* at most MaxFailures jobs of one run fail
MaxFailures == 1
\* a remote directory handed to merge alone lists at most MaxKids children
MaxKids == 3
\* the largest quota, in bytes, and the largest query
MaxQuota == 10
MaxQuery == 3
\* the jobs of one trie of the executor, where the tries are large
MaxBucket == 51
\* a directory whose children fan out has up to MaxExtra children more than
\* one chunk holds
MaxExtra == 1
\* a run of the executor with progress has up to MaxUploads upload jobs and as
\* many delete jobs, and the remote client reports the bytes of one upload in
\* up to MaxReports parts
MaxUploads == 2
MaxReports == 2

(***************************************************************************)
(* Operation, CrudValue and the Differ* mask                               *)
(***************************************************************************)
OpNone == 0
OpAdd == 1
OpDelete == 2
OpMod == 3
OpModConflict == 4

Operations == {OpNone, OpAdd, OpDelete, OpMod, OpModConflict}

\* CrudValue bits; None is the empty mask
CrudNone == {}
Create == {"Create"}
Read == {"Read"}
Update == {"Update"}
Delete == {"Delete"}

\* Differ* bits; DifferNone is the empty mask
DifferNone == {}
DifferDirType == {"DifferDirType"}
DifferMd5Checksum == {"DifferMd5Checksum"}
DifferModTime == {"DifferModTime"}
DifferSize == {"DifferSize"}

(***************************************************************************)
(* time.Time at half-second resolution                                     *)
(***************************************************************************)
\* t.Unix(): whole seconds since the epoch, truncated
Unix(t) == t \div 2

\* t.Round(time.Second): the nearest whole second, halfway values up
RoundSecond(t) == ((t + 1) \div 2) * 2

\* the time that is s whole seconds
Seconds(s) == 2 * s

(***************************************************************************)
(* File.  A *File that is nil is NilFile.  Blob is what hashing the bytes  *)
(* found at BlobAt yields: "" when they cannot be opened, as for a remote  *)
(* download url.  ExportLinks is TRUE when the map is non-empty.           *)
(***************************************************************************)
NilFile ==
    [Nil |-> TRUE, Id |-> "", Name |-> "", IsDir |-> FALSE, Size |-> 0,
     ModTime |-> 0, Md5Checksum |-> "", Blob |-> "", CacheChecksum |-> FALSE,
     ExportLinks |-> FALSE]

\* NewLocalFile(absPath, f): mtime is the raw mtime of the os.FileInfo, in ticks
NewLocalFile(name, isDir, size, mtime, blob) ==
    [Nil |-> FALSE, Id |-> "", Name |-> name, IsDir |-> isDir, Size |-> size,
     ModTime |-> RoundSecond(mtime), Md5Checksum |-> "", Blob |-> blob,
     CacheChecksum |-> TRUE, ExportLinks |-> FALSE]

\* NewRemoteFile(f): mtime is the parsed ModifiedDate, in ticks
NewRemoteFile(id, name, isDir, size, mtime, md5, exportLinks) ==
    [Nil |-> FALSE, Id |-> id, Name |-> name, IsDir |-> isDir, Size |-> size,
     ModTime |-> RoundSecond(mtime), Md5Checksum |-> md5, Blob |-> "",
     CacheChecksum |-> FALSE, ExportLinks |-> exportLinks]

\* hasExportLinks(f)
hasExportLinks(f) == ~f.Nil /\ f.ExportLinks

(***************************************************************************)
(* config.Index.  A nil *config.Index is NilIndex.                         *)
(***************************************************************************)
NilIndex == [Nil |-> TRUE, FileId |-> "", Md5Checksum |-> "", ModTime |-> 0]

\* File.ToIndex
ToIndex(f) ==
    [Nil |-> FALSE, FileId |-> f.Id, Md5Checksum |-> f.Md5Checksum,
     ModTime |-> Unix(f.ModTime)]

(***************************************************************************)
(* md5Checksum and fileDifferences                                         *)
(***************************************************************************)
\* the value md5Checksum(f) returns
md5Checksum(f) ==
    IF f.Nil \/ f.IsDir THEN ""
    ELSE IF f.Md5Checksum # "" THEN f.Md5Checksum
    ELSE f.Blob

\* TRUE when md5Checksum(f) opens and hashes the blob of f
md5Hashes(f) == ~f.Nil /\ ~f.IsDir /\ f.Md5Checksum = ""

\* f after md5Checksum(f) has run: the checksum is cached on the File
md5Cached(f) ==
    IF md5Hashes(f) /\ f.Blob # "" /\ f.CacheChecksum
    THEN [f EXCEPT !.Md5Checksum = f.Blob]
    ELSE f

checksumDiffers(mask) == (mask \cap DifferMd5Checksum) # {}
dirTypeDiffers(mask) == (mask \cap DifferDirType) # {}
modTimeDiffers(mask) == (mask \cap DifferModTime) # {}
sizeDiffers(mask) == (mask \cap DifferSize) # {}

\* TRUE when fileDifferences(src, dest, ignoreChecksum) calls md5Checksum
fileDifferencesHashes(src, dest, ignoreChecksum) ==
    /\ ~src.Nil
    /\ ~dest.Nil
    /\ ~(ignoreChecksum /\ src.Size # dest.Size)
    /\ ~(src.Size # dest.Size)

\* fileDifferences, were the sizes compared one way only
fileDifferencesOneWay(src, dest, ignoreChecksum) ==
    IF src.Nil \/ dest.Nil
    THEN DifferMd5Checksum \cup DifferSize \cup DifferModTime \cup DifferDirType
    ELSE LET d1 == IF src.Size > dest.Size THEN DifferSize ELSE DifferNone
             d2 == IF src.ModTime # dest.ModTime THEN DifferModTime ELSE DifferNone
             d3 == IF src.IsDir # dest.IsDir THEN DifferDirType ELSE DifferNone
             difference == d1 \cup d2 \cup d3
         IN  IF sizeDiffers(difference) \/ md5Checksum(src) # md5Checksum(dest)
             THEN difference \cup DifferMd5Checksum
             ELSE difference

fileDifferences(src, dest, ignoreChecksum) ==
    IF src.Nil \/ dest.Nil
    THEN DifferMd5Checksum \cup DifferSize \cup DifferModTime \cup DifferDirType
    ELSE LET d1 == IF src.Size # dest.Size THEN DifferSize ELSE DifferNone
             d2 == IF src.ModTime # dest.ModTime THEN DifferModTime ELSE DifferNone
             d3 == IF src.IsDir # dest.IsDir THEN DifferDirType ELSE DifferNone
             difference == d1 \cup d2 \cup d3
         IN  IF ignoreChecksum /\ sizeDiffers(difference)
             THEN difference \cup DifferMd5Checksum
             ELSE IF sizeDiffers(difference) \/ md5Checksum(src) # md5Checksum(dest)
                  THEN difference \cup DifferMd5Checksum
                  ELSE difference

(***************************************************************************)
(* Change                                                                  *)
(***************************************************************************)
\* &Change{Path: p, Src: src, Dest: dest, Parent: d}: the flags are zero
NewChange(p, src, dest, d) ==
    [Path |-> p, Parent |-> d, Src |-> src, Dest |-> dest, Force |-> FALSE,
     NoClobber |-> FALSE, IgnoreConflict |-> FALSE, IgnoreChecksum |-> FALSE]

\* Change.op, were the test of two nil Files missing
opNilDelete(c) ==
    IF c.Src.Nil THEN OpDelete
    ELSE IF c.Dest.Nil THEN OpAdd
    ELSE IF c.Src.IsDir # c.Dest.IsDir THEN OpMod
    ELSE IF c.Src.IsDir THEN OpNone
    ELSE LET mask == fileDifferences(c.Src, c.Dest, c.IgnoreChecksum)
         IN  IF sizeDiffers(mask) \/ checksumDiffers(mask)
             THEN IF c.IgnoreConflict THEN OpMod ELSE OpModConflict
             ELSE IF modTimeDiffers(mask) THEN OpMod
             ELSE OpNone

\* Change.op, were a difference of the modTime alone a conflict
opTouchConflict(c) ==
    IF c.Src.Nil /\ c.Dest.Nil THEN OpNone
    ELSE IF ~c.Src.Nil /\ c.Dest.Nil THEN OpAdd
    ELSE IF c.Src.Nil /\ ~c.Dest.Nil THEN OpDelete
    ELSE IF c.Src.IsDir # c.Dest.IsDir THEN OpMod
    ELSE IF c.Src.IsDir THEN OpNone
    ELSE LET mask == fileDifferences(c.Src, c.Dest, c.IgnoreChecksum)
         IN  IF sizeDiffers(mask) \/ checksumDiffers(mask) \/ modTimeDiffers(mask)
             THEN IF c.IgnoreConflict THEN OpMod ELSE OpModConflict
             ELSE OpNone

\* Change.op
op(c) ==
    IF c.Src.Nil /\ c.Dest.Nil THEN OpNone
    ELSE IF ~c.Src.Nil /\ c.Dest.Nil THEN OpAdd
    ELSE IF c.Src.Nil /\ ~c.Dest.Nil THEN OpDelete
    ELSE IF c.Src.IsDir # c.Dest.IsDir THEN OpMod
    ELSE IF c.Src.IsDir THEN OpNone
    ELSE LET mask == fileDifferences(c.Src, c.Dest, c.IgnoreChecksum)
         IN  IF sizeDiffers(mask) \/ checksumDiffers(mask)
             THEN IF c.IgnoreConflict THEN OpMod ELSE OpModConflict
             ELSE IF modTimeDiffers(mask) THEN OpMod
             ELSE OpNone

\* Change.Op, were noClobber tested before force
OpClobberFirst(c) ==
    LET o == op(c)
    IN  IF o # OpAdd /\ c.NoClobber THEN OpNone
        ELSE IF c.Force
             THEN IF o = OpModConflict THEN OpMod ELSE OpAdd
             ELSE o

\* Change.Op
Op(c) ==
    [o \in Operations |->
        IF c.Force
        THEN IF o = OpModConflict THEN OpMod ELSE OpAdd
        ELSE IF o # OpAdd /\ c.NoClobber THEN OpNone
        ELSE o][op(c)]

\* TRUE when evaluating c.Op() reaches fileDifferences and it hashes
OpHashes(c) ==
    /\ ~c.Src.Nil
    /\ ~c.Dest.Nil
    /\ c.Src.IsDir = c.Dest.IsDir
    /\ ~c.Src.IsDir
    /\ fileDifferencesHashes(c.Src, c.Dest, c.IgnoreChecksum)

\* c after c.Op() has run: the Files it points to carry the cached checksums
OpCached(c) ==
    IF OpHashes(c)
    THEN [c EXCEPT !.Src = md5Cached(c.Src), !.Dest = md5Cached(c.Dest)]
    ELSE c

\* Change.crudValue
crudValue(c) ==
    [o \in Operations |->
        IF o = OpAdd THEN Create
        ELSE IF o = OpMod \/ o = OpModConflict THEN Update
        ELSE IF o = OpDelete THEN Delete
        ELSE CrudNone][Op(c)]

(***************************************************************************)
(* State.                                                                  *)
(*   opts         the Options of the Commands value                        *)
(*   isPush       the direction flag handed to the resolver                *)
(*   fs           the local tree: fs.top[path] is what os.Stat yields for  *)
(*                a source path, fs.kids[path] what list yields for a      *)
(*                directory                                                *)
(*   remote       the remote store: remote.top[path] is FindByPath,        *)
(*                remote.kids[id] is FindByParentId                        *)
(*   index        the index store, file id -> record                       *)
(*   pc           the position of the run                                  *)
(*   cl           the change list of the resolver                          *)
(*   approved     the list conflict resolution hands on                    *)
(*   unresolved   the conflicts that persist                               *)
(*   err          the error the run returned, ErrNil for none              *)
(*   reached      the stages of Push that have been entered                *)
(*   remoteOps    the remote mutations performed                           *)
(*   indexReads   the file ids looked up in the index store                *)
(*   indexWrites  the file ids whose index record was written or removed   *)
(*   jobs         the executor's jobs not yet run                          *)
(*   jobErrs      the jobs whose remote call failed                        *)
(*   dirlist      the result of a merge                                    *)
(*   result       what a call of Change.Op or QuotaStatus has returned     *)
(*   indexErrs    the jobs whose index write or removal failed             *)
(*   rationer     the rationer of playPushChanges: the jobs to load for    *)
(*                each trie, the jobs running and whether the sentinel     *)
(*                has been sent                                            *)
(*   procs        the local variables of the goroutines and loops under    *)
(*                way                                                      *)
(*   mounts       the mount points still mounted and the mount             *)
(*                directories still there                                  *)
(*   exit         the exit status of the process, "" while it runs         *)
(***************************************************************************)
VARIABLES opts, isPush, fs, remote, index, pc, cl, approved, unresolved, err,
          reached, remoteOps, indexReads, indexWrites, jobs, jobErrs, dirlist,
          result, indexErrs, rationer, procs, mounts, exit

vars == <<opts, isPush, fs, remote, index, pc, cl, approved, unresolved, err,
          reached, remoteOps, indexReads, indexWrites, jobs, jobErrs, dirlist,
          result, indexErrs, rationer, procs, mounts, exit>>

ErrNil == ""
ErrPathNotExists == "remote path does not exist"
ErrClashes == "clashes detected"
ErrNeither == "does not exist locally nor remotely"
ErrConflicts == "conflicts have prevented a push operation"
ErrQuota == "QuotaBytesTotal < 1"
ErrIgnored == "is set to be ignored yet is being processed"
ErrAbout == "about failed"

(***************************************************************************)
(* asciitrie, as merge uses it: a map from names to Files.  Walk yields    *)
(* the values in the order of their keys.                                  *)
(***************************************************************************)
NameOrder == <<"d", "f", "g", "x", "y">>

TrieNew == [n \in {} |-> NilFile]

\* Trie.Get: the value and ok; NilFile stands for not found
TrieGet(t, k) == IF k \in DOMAIN t THEN t[k] ELSE NilFile

\* Trie.Set, were a key that is set kept with its first value
TrieSetKeepsFirst(t, k, v) == [n \in (DOMAIN t) \cup {k} |-> IF n \in DOMAIN t THEN t[n] ELSE v]

\* Trie.Set; the evicted value is TrieGet before the Set
TrieSet(t, k, v) == [n \in (DOMAIN t) \cup {k} |-> IF n = k THEN v ELSE t[n]]

\* Trie.Pop, were the key left in the trie
TriePopLeaves(t, k) == t

\* Trie.Pop
TriePop(t, k) == [n \in (DOMAIN t) \ {k} |-> t[n]]

\* Trie.Walk
TrieWalk(t) ==
    LET F[i \in 0..Len(NameOrder)] ==
            IF i = 0 THEN <<>>
            ELSE IF NameOrder[i] \in DOMAIN t
                 THEN Append(F[i - 1], t[NameOrder[i]])
                 ELSE F[i - 1]
    IN  F[Len(NameOrder)]

(***************************************************************************)
(* merge                                                                   *)
(***************************************************************************)
\* dirList.Name
dirListName(dl) == IF ~dl.remote.Nil THEN dl.remote.Name ELSE dl.local.Name

\* the first loop of merge: every local child is Set in localsTrie
mergeLocals(locals) ==
    LET F[i \in 0..Len(locals)] ==
            IF i = 0 THEN TrieNew
            ELSE TrieSet(F[i - 1], locals[i].Name, locals[i])
    IN  F[Len(locals)]

\* mergeRemote, were the clash detection not gated by ignoreClashes
mergeRemoteUngated(st, r, ignoreClashes) ==
    LET evicted == TrieGet(st.remotesTrie, r.Name)
        st1 == [st EXCEPT !.remotesTrie = TrieSet(@, r.Name, r)]
        mem == TrieGet(st.localsTrie, r.Name)
    IN  IF ~evicted.Nil
        THEN [st1 EXCEPT !.clashes = Append(@, evicted)]
        ELSE IF ~mem.Nil
             THEN [st1 EXCEPT !.merged = Append(@, [remote |-> r, local |-> mem]),
                              !.localsTrie = TriePop(@, r.Name)]
             ELSE [st1 EXCEPT !.merged = Append(@, [remote |-> r, local |-> NilFile])]

\* one iteration of the loop of merge over the remote children
mergeRemote(st, r, ignoreClashes) ==
    LET evicted == TrieGet(st.remotesTrie, r.Name)
        st1 == IF ignoreClashes THEN st
               ELSE [st EXCEPT !.remotesTrie = TrieSet(@, r.Name, r)]
        mem == TrieGet(st.localsTrie, r.Name)
    IN  IF ~ignoreClashes /\ ~evicted.Nil
        THEN [st1 EXCEPT !.clashes = Append(@, evicted)]
        ELSE IF ~mem.Nil
             THEN [st1 EXCEPT !.merged = Append(@, [remote |-> r, local |-> mem]),
                              !.localsTrie = TriePop(@, r.Name)]
             ELSE [st1 EXCEPT !.merged = Append(@, [remote |-> r, local |-> NilFile])]

merge(remotes, locals, ignoreClashes) ==
    LET st0 == [localsTrie |-> mergeLocals(locals), remotesTrie |-> TrieNew,
                merged |-> <<>>, clashes |-> <<>>]
        F[i \in 0..Len(remotes)] ==
            IF i = 0 THEN st0 ELSE mergeRemote(F[i - 1], remotes[i], ignoreClashes)
        st == F[Len(remotes)]
        walk == TrieWalk(st.localsTrie)
        rest == [i \in 1..Len(walk) |-> [remote |-> NilFile, local |-> walk[i]]]
    IN  [merged |-> st.merged \o rest, clashes |-> st.clashes]

(***************************************************************************)
(* The collaborators of the resolver                                       *)
(***************************************************************************)
\* p joined with a child name, without doubling the slash of the root
joinPath(p, name) == IF p = "/" THEN "/" \o name ELSE p \o "/" \o name

\* the directories of the worlds and the names of their entries
DirPaths == {"/", "/d"}
Names == {NameOrder[i] : i \in 1..Len(NameOrder)}

\* pathSplitter: the directory and the last element of an absolute path
pathSplitter(p) ==
    IF p = "/" THEN [dir |-> "/", base |-> ""]
    ELSE CHOOSE s \in [dir : DirPaths, base : Names] : joinPath(s.dir, s.base) = p

parentPather(p) == pathSplitter(p).dir

\* remotePathSplit: as pathSplitter, but the directory of a child of the root
\* is the empty string
remotePathSplit(p) ==
    [dir |-> IF pathSplitter(p).dir = "/" THEN "" ELSE pathSplitter(p).dir,
     base |-> pathSplitter(p).base]

rootLike(p) == p = "/" \/ p = "" \/ p = "root"

\* the children of the file with this id in a remote store
kidsOf(store, id) == IF id \in DOMAIN store.kids THEN store.kids[id] ELSE <<>>

\* Remote.FindByPath on a remote store: the root for a root-like path, else
\* the first child of that name of the parent path found
RECURSIVE FindByPathIn(_, _)
FindByPathIn(store, p) ==
    IF rootLike(p) THEN store.top["/"]
    ELSE LET par == FindByPathIn(store, parentPather(p))
             kids == IF par.Nil THEN <<>> ELSE kidsOf(store, par.Id)
             hits == {i \in 1..Len(kids) : kids[i].Name = pathSplitter(p).base}
         IN  IF hits = {} THEN NilFile
             ELSE kids[CHOOSE i \in hits : \A k \in hits : i <= k]

\* the ids of the files of a remote store
storeIds(store) ==
    {store.top[p].Id : p \in DOMAIN store.top}
      \cup UNION {{store.kids[id][i].Id : i \in 1..Len(store.kids[id])} :
                    id \in DOMAIN store.kids}

\* Remote.UpsertByComparison on a remote store: a source that carries the id of
\* a remote file updates that file, any other source becomes a new child of
\* parentId
storeUpsert(store, parentId, f) ==
    IF f.Id \in storeIds(store)
    THEN [top |-> [p \in DOMAIN store.top |->
                     IF store.top[p].Id = f.Id THEN f ELSE store.top[p]],
          kids |-> [id \in DOMAIN store.kids |->
                      [i \in 1..Len(store.kids[id]) |->
                         IF store.kids[id][i].Id = f.Id THEN f ELSE store.kids[id][i]]]]
    ELSE [store EXCEPT !.kids = [id \in (DOMAIN store.kids) \cup {parentId} |->
                                   IF id = parentId
                                   THEN Append(kidsOf(store, parentId), f)
                                   ELSE store.kids[id]]]

\* Remote.Delete on a remote store
storeDelete(store, fileId) ==
    [store EXCEPT !.kids = [id \in DOMAIN store.kids |->
                              SelectSeq(store.kids[id], LAMBDA e : e.Id # fileId)]]

\* the id the remote gives the file it creates at the path p
freshId(store, p) ==
    LET ids == <<"new" \o p, "new" \o p \o "+", "new" \o p \o "++", "new" \o p \o "+++">>
        used == storeIds(store)
    IN  ids[CHOOSE i \in 1..Len(ids) :
                 ids[i] \notin used /\ \A k \in 1..(i - 1) : ids[k] \in used]

\* Remote.UpsertByComparison of the source src for the path p: a source
\* without id is created below parentId under a fresh id, a source with an id
\* updates the remote file of that id; the file returned has the size, the
\* modification time, the type and the checksum of the source
UpsertByComparison(store, parentId, src, p) ==
    LET id == IF src.Id # "" THEN src.Id ELSE freshId(store, p)
        f == [src EXCEPT !.Id = id, !.Md5Checksum = md5Checksum(src), !.Blob = "",
                         !.CacheChecksum = FALSE]
    IN  [store |-> storeUpsert(store, parentId, f), file |-> f]

\* the directory remoteMkdirAll asks the remote to create for the path d
newRemoteDir(d) ==
    NewRemoteFile("", remotePathSplit(d).base, TRUE, 0, Seconds(MaxSecs), "", FALSE)

\* the end of remoteMkdirAll(d): the directory is created below its parent,
\* the file of up, in the store of up
remoteMkdirIn(up, d) ==
    CHOOSE res \in {[store |-> new.store, file |-> new.file,
                     made |-> up.made \cup {[path |-> d, file |-> new.file]}] :
                       new \in {UpsertByComparison(up.store, up.file.Id,
                                                  newRemoteDir(d), d)}} : TRUE

\* remoteMkdirAll(d) on a remote store: the directory found at d, else the one
\* created there below its parent, which is found or created in turn; made
\* holds the directories created and their paths
RECURSIVE remoteMkdirAll(_, _)
remoteMkdirAll(store, d) ==
    IF ~FindByPathIn(store, d).Nil
    THEN [store |-> store, file |-> FindByPathIn(store, d), made |-> {}]
    ELSE remoteMkdirIn(IF FindByPathIn(store, remotePathSplit(d).dir).Nil
                       THEN remoteMkdirAll(store, remotePathSplit(d).dir)
                       ELSE [store |-> store,
                             file |-> FindByPathIn(store, remotePathSplit(d).dir),
                             made |-> {}],
                       d)

\* Remote.FindByPath: the file, or nil and ErrPathNotExists
FindByPath(p) == FindByPathIn(remote, p)

\* Remote.FindByParentId
FindByParentId(id) == kidsOf(remote, id)

\* Regexp.Match of opts.IgnoreRegexp, where there is one
ignored(name) == ~opts.IgnoreRegexp.Nil /\ name \in opts.IgnoreRegexp.Matches

\* list: the children of the local directory p, as NewLocalFile values, but
\* for those whose name the ignore regexp matches
list(p) ==
    IF p \in DOMAIN fs.kids
    THEN SelectSeq(fs.kids[p], LAMBDA f : ~ignored(f.Name))
    ELSE <<>>

\* os.Stat of a path wrapped by NewLocalFile, nil when it does not exist
stat(p) ==
    IF p \in DOMAIN fs.top THEN fs.top[p]
    ELSE LET kids == IF parentPather(p) \in DOMAIN fs.kids
                     THEN fs.kids[parentPather(p)] ELSE <<>>
             hits == {i \in 1..Len(kids) : kids[i].Name = pathSplitter(p).base}
         IN  IF hits = {} THEN NilFile ELSE kids[CHOOSE i \in hits : TRUE]

\* resolveToLocalFile, were the ignore regexp not looked at
resolveToLocalFileUnchecked(relToRoot) == [local |-> stat(relToRoot), err |-> ErrNil]

\* resolveToLocalFile: the error for an ignored path, else the local file
resolveToLocalFile(relToRoot) ==
    IF ignored(relToRoot) THEN [local |-> NilFile, err |-> ErrIgnored]
    ELSE [local |-> stat(relToRoot), err |-> ErrNil]

\* Commands.deserializeIndex: nil on any lookup failure
deserializeIndex(id) == IF id \in DOMAIN index THEN index[id] ELSE NilIndex

(***************************************************************************)
(* resolveChangeListRecv                                                   *)
(***************************************************************************)
RECURSIVE resolveChangeListRecv(_, _, _, _, _)
RECURSIVE resolveChunk(_, _, _, _)

\* the goroutine of one chunk: the pairs dlist[i..] in turn, until one fails
resolveChunk(push, p, dlist, i) ==
    IF i > Len(dlist) THEN <<>>
    ELSE LET dl == dlist[i]
             res == resolveChangeListRecv(push, p, joinPath(p, dirListName(dl)),
                                          dl.remote, dl.local)
         IN  IF res.err # ErrNil /\ res.err # ErrPathNotExists
             THEN <<>>
             ELSE res.cl \o resolveChunk(push, p, dlist, i + 1)

\* pushSkipsDoc, were the test of the export links missing
pushSkipsNothing(push, r) == FALSE

\* a push never touches a remote file that has export links
pushSkipsDoc(push, r) == push /\ hasExportLinks(r)

resolveChangeListRecv(push, d, p, r, l) ==
    LET none == [cl |-> <<>>, err |-> ErrNil]
        docMask == fileDifferences(r, l, opts.IgnoreChecksum)
        docSame == ~dirTypeDiffers(docMask) /\ ~modTimeDiffers(docMask)
        change0 == IF push THEN NewChange(p, l, r, d) ELSE NewChange(p, r, l, d)
        forbiddenOp == (opts.ExcludeCrudMask \cap crudValue(change0)) # {}
        change1 == [OpCached(change0) EXCEPT !.Force = opts.Force,
                                             !.NoClobber = opts.NoClobber,
                                             !.IgnoreChecksum = opts.IgnoreChecksum]
        change == OpCached(change1)
        cl0 == IF Op(change) # OpNone THEN <<change>> ELSE <<>>
        localChildren == IF l.Nil \/ ~l.IsDir THEN <<>> ELSE list(p)
        remoteChildren == IF ~r.Nil THEN FindByParentId(r.Id) ELSE <<>>
        m == merge(remoteChildren, localChildren, opts.IgnoreNameClashes)
        leaf == \/ ~opts.Recursive
                \/ ~push /\ ~r.Nil /\ ~r.IsDir
                \/ push /\ ~l.Nil /\ ~l.IsDir
        rest == IF leaf THEN [cl |-> <<>>, err |-> ErrNil]
                ELSE IF ~opts.IgnoreNameClashes /\ Len(m.clashes) >= 1
                     THEN [cl |-> <<>>, err |-> ErrClashes]
                ELSE [cl |-> resolveChunk(push, p, m.merged, 1), err |-> ErrNil]
    IN  IF pushSkipsDoc(push, r) THEN none
        ELSE IF ~push /\ ~opts.Force /\ hasExportLinks(r) /\ docSame THEN none
        ELSE IF forbiddenOp THEN none
        ELSE [rest EXCEPT !.cl = cl0 \o @]

\* doChangeListRecv
doChangeListRecv(relToRoot, l, r, push) ==
    IF l.Nil /\ r.Nil THEN [cl |-> <<>>, err |-> ErrNeither]
    ELSE resolveChangeListRecv(push, relToRoot, relToRoot, r, l)

\* byRemoteResolve
byRemoteResolve(relToRoot, r, push) ==
    LET l == resolveToLocalFile(relToRoot)
    IN  IF l.err # ErrNil THEN [cl |-> <<>>, err |-> l.err]
        ELSE doChangeListRecv(relToRoot, l.local, r, push)

\* changeListResolve: a pull of a path the remote does not have fails
changeListResolve(relToRoot, push) ==
    LET r == FindByPath(relToRoot)
    IN  IF r.Nil /\ ~push THEN [cl |-> <<>>, err |-> ErrPathNotExists]
        ELSE byRemoteResolve(relToRoot, r, push)

(***************************************************************************)
(* Conflict resolution                                                     *)
(***************************************************************************)
\* conflict, were a change of either the time or the checksum a conflict
conflictEither(src, dest, idx, push) ==
    IF idx.Nil THEN FALSE
    ELSE IF push /\ ~dest.Nil /\ Unix(dest.ModTime) = idx.ModTime THEN FALSE
    ELSE \/ Unix(RoundSecond(src.ModTime)) # idx.ModTime
         \/ src.Md5Checksum # idx.Md5Checksum

\* conflict, were a file without index record a conflict
conflictUnindexed(src, dest, idx, push) ==
    IF idx.Nil THEN TRUE
    ELSE IF push /\ ~dest.Nil /\ Unix(dest.ModTime) = idx.ModTime THEN FALSE
    ELSE /\ Unix(RoundSecond(src.ModTime)) # idx.ModTime
         /\ src.Md5Checksum # idx.Md5Checksum

\* conflict, were the one-sided-edit test made in both directions
conflictBothWays(src, dest, idx, push) ==
    IF idx.Nil THEN FALSE
    ELSE IF ~dest.Nil /\ Unix(dest.ModTime) = idx.ModTime THEN FALSE
    ELSE /\ Unix(RoundSecond(src.ModTime)) # idx.ModTime
         /\ src.Md5Checksum # idx.Md5Checksum

conflict(src, dest, idx, push) ==
    IF idx.Nil THEN FALSE
    ELSE IF push /\ ~dest.Nil /\ Unix(dest.ModTime) = idx.ModTime THEN FALSE
    ELSE IF /\ Unix(RoundSecond(src.ModTime)) # idx.ModTime
            /\ src.Md5Checksum # idx.Md5Checksum
         THEN TRUE
         ELSE FALSE

\* l and r of resolveConflicts: the local and the remote side of ch
localSide(ch, push) == IF push THEN ch.Src ELSE ch.Dest
remoteSide(ch, push) == IF push THEN ch.Dest ELSE ch.Src

\* fileId of resolveConflicts: the id of the local side, else of the remote
conflictFileId(ch, push) ==
    LET l == localSide(ch, push)
        r == remoteSide(ch, push)
        id == IF ~l.Nil THEN l.Id ELSE ""
    IN  IF id = "" /\ ~r.Nil THEN r.Id ELSE id

\* TRUE when resolveConflicts finds ch to be no conflict
spurious(ch, push) ==
    ~conflict(localSide(ch, push), remoteSide(ch, push),
              deserializeIndex(conflictFileId(ch, push)), push)

\* disregard, were the change left unmarked
disregardUnmarked(ch) == ch

\* ch as resolveConflicts leaves it when it is disregarded
disregard(ch) == IF Op(ch) = OpModConflict THEN [ch EXCEPT !.IgnoreConflict = TRUE] ELSE ch

\* resolveConflicts(conflicts, push, indexFiler)
resolveConflicts(conflicts, push) ==
    LET F[i \in 0..Len(conflicts)] ==
            IF i = 0 THEN [resolved |-> <<>>, unresolved |-> <<>>]
            ELSE IF spurious(conflicts[i], push)
                 THEN [F[i - 1] EXCEPT !.resolved = Append(@, disregard(conflicts[i]))]
                 ELSE [F[i - 1] EXCEPT !.unresolved = Append(@, conflicts[i])]
    IN  F[Len(conflicts)]

\* sift, were the conflicts left among the nonConflicts as well
siftLeaves(changes) ==
    LET isConflict(c) == Op(c) = OpModConflict
    IN  [nonConflicts |-> changes, conflicts |-> SelectSeq(changes, isConflict)]

\* sift
sift(changes) ==
    LET isConflict(c) == Op(c) = OpModConflict
        notConflict(c) == Op(c) # OpModConflict
    IN  [nonConflicts |-> SelectSeq(changes, notConflict),
         conflicts |-> SelectSeq(changes, isConflict)]

\* conflictsPersist, were a single conflict let through
conflictsPersistSeveral(conflicts) == Len(conflicts) > 1

conflictsPersist(conflicts) == Len(conflicts) >= 1

\* the changes of a list after resolveConflicts has run on its conflicts: the
\* list and the conflicts point to the same Changes
disregarded(changes, push) ==
    [i \in 1..Len(changes) |->
        IF Op(changes[i]) = OpModConflict /\ spurious(changes[i], push)
        THEN disregard(changes[i])
        ELSE changes[i]]

\* Commands.resolveConflicts past the test of opts.IgnoreConflict
siftAndResolve(changes, push) ==
    LET s == sift(changes)
        rc == resolveConflicts(s.conflicts, push)
        reads == {conflictFileId(s.conflicts[i], push) : i \in 1..Len(s.conflicts)}
    IN  IF conflictsPersist(rc.unresolved)
        THEN [nonConflicts |-> rc.resolved, conflicts |-> rc.unresolved,
              aborted |-> TRUE, reads |-> reads,
              changes |-> disregarded(changes, push)]
        ELSE [nonConflicts |-> s.nonConflicts \o rc.resolved \o rc.unresolved,
              conflicts |-> <<>>, aborted |-> FALSE, reads |-> reads,
              changes |-> disregarded(changes, push)]

\* Commands.resolveConflicts with the test of opts.IgnoreConflict left out
resolveConflictsAlways(changes, push) == siftAndResolve(changes, push)

\* Commands.resolveConflicts: aborted when the second pointer returned is not
\* nil; reads are the ids looked up in the index store, changes the list as
\* the call leaves it
Commands_resolveConflicts(changes, push) ==
    IF opts.IgnoreConflict
    THEN [nonConflicts |-> changes, conflicts |-> <<>>, aborted |-> FALSE,
          reads |-> {}, changes |-> changes]
    ELSE siftAndResolve(changes, push)

(***************************************************************************)
(* Quota                                                                   *)
(***************************************************************************)
Barely == 0
AlmostExceeded == 1
HalfwayExceeded == 2
Exceeded == 3
Unknown == 4

\* QuotaStatus, were the two thresholds inclusive
QuotaStatusInclusive(query, about) ==
    IF query < 0 THEN [status |-> Unknown, err |-> ErrNil]
    ELSE IF about.err # ErrNil THEN [status |-> Unknown, err |-> about.err]
    ELSE IF about.QuotaBytesTotal < 1 THEN [status |-> Unknown, err |-> ErrQuota]
    ELSE LET toBeUsed == query + about.QuotaBytesUsed
         IN  IF toBeUsed >= about.QuotaBytesTotal THEN [status |-> Exceeded, err |-> ErrNil]
             ELSE IF 2 * toBeUsed <= about.QuotaBytesTotal
                  THEN [status |-> Barely, err |-> ErrNil]
             ELSE IF 5 * toBeUsed <= 4 * about.QuotaBytesTotal
                  THEN [status |-> HalfwayExceeded, err |-> ErrNil]
             ELSE [status |-> AlmostExceeded, err |-> ErrNil]

\* Commands.QuotaStatus(query); about is the reply of Remote.About.  The
\* float64 quotient is compared as a fraction of integers, which is the same
\* for quotas below 2^50 bytes
QuotaStatus(query, about) ==
    IF query < 0 THEN [status |-> Unknown, err |-> ErrNil]
    ELSE IF about.err # ErrNil THEN [status |-> Unknown, err |-> about.err]
    ELSE IF about.QuotaBytesTotal < 1 THEN [status |-> Unknown, err |-> ErrQuota]
    ELSE LET toBeUsed == query + about.QuotaBytesUsed
         IN  IF toBeUsed >= about.QuotaBytesTotal THEN [status |-> Exceeded, err |-> ErrNil]
             ELSE IF 2 * toBeUsed < about.QuotaBytesTotal
                  THEN [status |-> Barely, err |-> ErrNil]
             ELSE IF 5 * toBeUsed < 4 * about.QuotaBytesTotal
                  THEN [status |-> HalfwayExceeded, err |-> ErrNil]
             ELSE [status |-> AlmostExceeded, err |-> ErrNil]

\* reduceToSize(changes, SelectSrc|SelectDest)
reduceToSize(changes) ==
    LET F[i \in 0..Len(changes)] ==
            IF i = 0 THEN [srcSize |-> 0, destSize |-> 0]
            ELSE [srcSize |-> F[i - 1].srcSize
                              + (IF ~changes[i].Src.Nil THEN changes[i].Src.Size ELSE 0),
                  destSize |-> F[i - 1].destSize
                               + (IF ~changes[i].Dest.Nil THEN changes[i].Dest.Size ELSE 0)]
    IN  F[Len(changes)]

\* canPrompt, were it to hold whatever the options
canPromptAlways == TRUE

\* Options.canPrompt
canPrompt == opts.StdoutIsTty /\ ~opts.Quiet /\ ~opts.NoPrompt

(***************************************************************************)
(* The executor's buckets                                                  *)
(***************************************************************************)
\* the function a change is scheduled with, "" for none
jobFn(c) ==
    [o \in Operations |->
        IF o = OpAdd THEN "remoteAdd"
        ELSE IF o = OpMod \/ o = OpModConflict THEN "remoteMod"
        ELSE IF o = OpDelete THEN "remoteDelete"
        ELSE ""][Op(c)]

\* addTrie, modTrie and delTrie after the loop of Set(c.Path, c): for each
\* function and path the last change Set there
bucketJobs(changes) ==
    {[fn |-> jobFn(changes[i]), change |-> changes[i]] :
        i \in {k \in 1..Len(changes) :
                 /\ jobFn(changes[k]) # ""
                 /\ \A m \in (k + 1)..Len(changes) :
                       ~(/\ jobFn(changes[m]) = jobFn(changes[k])
                         /\ changes[m].Path = changes[k].Path)}}

\* the source of the upsert, were the id of change.Dest not given to it
upsertSrcNoId(c) == c.Src

\* the source remoteMod hands to the upsert: change.Src, under the id of
\* change.Dest when there are both
upsertSrc(c) ==
    IF ~c.Dest.Nil /\ ~c.Src.Nil THEN [c.Src EXCEPT !.Id = c.Dest.Id] ELSE c.Src

\* the upsert of remoteMod below the directory parent; without a source the
\* remote is left as it is
upserted(store, parent, c) ==
    IF c.Src.Nil THEN [store |-> store, file |-> c.Dest]
    ELSE UpsertByComparison(store, parent.Id, upsertSrc(c), c.Path)

(***************************************************************************)
(* The inputs: options and worlds                                          *)
(***************************************************************************)
Secs == 1..MaxSecs
Sizes == 1..MaxSize
Hashes == {"h1", "h2"}

\* a nil *config.Mount and a nil *regexp.Regexp; a regexp is the set of the
\* paths and names it matches
NilMount == [Nil |-> TRUE, Points |-> <<>>, CreatedMountDir |-> "", ShortestMountRoot |-> ""]
NilRegexp == [Nil |-> TRUE, Matches |-> {}]

Options(force, noClobber, ignoreChecksum, ignoreConflict, ignoreNameClashes, recursive, mask, tty, quiet, noPrompt) ==
    [Force |-> force, NoClobber |-> noClobber, IgnoreChecksum |-> ignoreChecksum,
     IgnoreConflict |-> ignoreConflict, IgnoreNameClashes |-> ignoreNameClashes,
     Recursive |-> recursive, ExcludeCrudMask |-> mask, StdoutIsTty |-> tty,
     Quiet |-> quiet, NoPrompt |-> noPrompt, Sources |-> <<"/">>,
     Mount |-> NilMount, IgnoreRegexp |-> NilRegexp]

\* New: the ignore regexp is read from the ignore file unless Force is set
New(o, ignoreFile) == [o EXCEPT !.IgnoreRegexp = IF o.Force THEN NilRegexp ELSE ignoreFile]

\* what clearMountPoints has to clear: the mount points and the directories
\* made for them
mounted(mount) ==
    IF mount.Nil THEN {}
    ELSE {mount.Points[i].MountPath : i \in 1..Len(mount.Points)}
           \cup ({mount.CreatedMountDir, mount.ShortestMountRoot} \ {""})

\* no rationer has been made
NoRationer == [pending |-> <<>>, running |-> 0, sentinel |-> FALSE]

\* a local regular file: one byte of content h1, last written in second s
LocalLeaf(name, s) == NewLocalFile(name, FALSE, 1, Seconds(s) - 1, "h1")
LocalDir(name) == NewLocalFile(name, TRUE, 0, Seconds(1) - 1, "")

RemoteLeaves(id, name) ==
    {NewRemoteFile(id, name, FALSE, sz, Seconds(s), h, FALSE) :
        sz \in Sizes, s \in Secs, h \in Hashes}
RemoteDoc(id, name) == NewRemoteFile(id, name, FALSE, 0, Seconds(1), "", TRUE)
RemoteDir(id, name) == NewRemoteFile(id, name, TRUE, 0, Seconds(1), "", FALSE)

IndexRecords(id) ==
    {[Nil |-> FALSE, FileId |-> id, Md5Checksum |-> h, ModTime |-> s] :
        h \in Hashes, s \in 1..(MaxSecs + 1)}

\* the local tree and the remote store under the source path "/"
LocalTree(rootKids, dKids) ==
    [top |-> [p \in {"/"} |-> LocalDir("")],
     kids |-> [p \in {"/", "/d"} |-> IF p = "/" THEN rootKids ELSE dKids]]
RemoteStore(rootKids, dKids) ==
    [top |-> [p \in {"/"} |-> RemoteDir("root", "")],
     kids |-> [id \in {"root", "idd"} |-> IF id = "root" THEN rootKids ELSE dKids]]

\* zero or one file as a listing
Listing(f) == IF f.Nil THEN <<>> ELSE <<f>>

\* Worlds with one path /f, present on either side or both, and the index
\* record of the remote file; g is a second, local-only file.  The local f
\* was last written in one of localSecs.
LeafWorlds(withIndex, localSecs) ==
    LET indexed(l, r) == withIndex /\ ~l.Nil /\ r \in RemoteLeaves("idf", "f")
    IN  {[fs |-> LocalTree(Listing(t[1]) \o <<LocalLeaf("g", 1)>>, <<>>),
          remote |-> RemoteStore(Listing(t[2]), <<>>),
          index |-> [id \in (IF t[3].Nil THEN {} ELSE {"idf"}) |-> t[3]]] :
            t \in {u \in ({NilFile} \cup {LocalLeaf("f", s) : s \in localSecs})
                         \X ({NilFile, RemoteDoc("idf", "f"), RemoteDir("idf", "f")}
                               \cup RemoteLeaves("idf", "f"))
                         \X ({NilIndex} \cup IndexRecords("idf")) :
                      u[3].Nil \/ indexed(u[1], u[2])}}

\* k remote children named x
Dups(k) == [i \in 1..k |-> NewRemoteFile("idx" \o ToString(i), "x", FALSE, 1,
                                         Seconds(1), "h1", FALSE)]

\* Worlds with a directory /d on both sides that holds up to MaxDup remote
\* children named x and, with lx \in lxs, a local x; the root may hold a second
\* remote d and, with g \in gs, a local-only file g.
DirWorlds(gs, lxs) ==
    {[fs |-> LocalTree(<<LocalDir("d")>> \o (IF g THEN <<LocalLeaf("g", 1)>> ELSE <<>>),
                       IF lx THEN <<LocalLeaf("x", 1)>> ELSE <<>>),
      remote |-> RemoteStore(<<RemoteDir("idd", "d")>>
                               \o (IF top THEN <<RemoteDir("idd2", "d")>> ELSE <<>>),
                             Dups(k)),
      index |-> [id \in {} |-> NilIndex]] :
        g \in gs, lx \in lxs, top \in BOOLEAN, k \in 0..MaxDup}

\* Worlds in which the remote /d is a doc-like file while the local /d is a
\* directory that may hold a file x
DocDirWorlds ==
    {[fs |-> LocalTree(<<LocalDir("d")>>, IF lx THEN <<LocalLeaf("x", 1)>> ELSE <<>>),
      remote |-> RemoteStore(<<RemoteDoc("idd", "d")>>, Dups(k)),
      index |-> [id \in {} |-> NilIndex]] :
        lx \in BOOLEAN, k \in 0..MaxDup}

\* the listings of at most n remote children named x or y, each with its own id
RECURSIVE RemoteListings(_)
RemoteListings(n) ==
    IF n = 0 THEN {<<>>}
    ELSE RemoteListings(n - 1)
         \cup {Append(q, NewRemoteFile("id" \o ToString(Len(q) + 1), nm, FALSE, 1,
                                       Seconds(1), "h1", FALSE)) :
                 q \in {u \in RemoteListings(n - 1) : Len(u) = n - 1},
                 nm \in {"x", "y"}}

\* the listings of a local directory that holds x, y, both or neither
LocalListings ==
    {<<>>, <<LocalLeaf("x", 1)>>, <<LocalLeaf("y", 1)>>,
     <<LocalLeaf("x", 1), LocalLeaf("y", 1)>>,
     <<LocalLeaf("y", 1), LocalLeaf("x", 1)>>}

\* Worlds whose root holds up to MaxKids remote children and a local listing
MergeWorlds ==
    {[fs |-> LocalTree(ll, <<>>), remote |-> RemoteStore(rl, <<>>),
      index |-> [id \in {} |-> NilIndex]] :
        rl \in RemoteListings(MaxKids), ll \in LocalListings}

\* the replies of Remote.About: an error, or the quota and its use
AboutReplies ==
    {[err |-> ErrAbout, QuotaBytesTotal |-> 0, QuotaBytesUsed |-> 0]}
    \cup {[err |-> ErrNil, QuotaBytesTotal |-> t, QuotaBytesUsed |-> u] :
            t \in {0, 4}, u \in {0, 2, 4}}

\* no call has been made: change, query and about are the arguments of the
\* call to come, the other fields what it returns
NoResult ==
    [op |-> OpNone, raw |-> OpNone, mask |-> DifferNone, hashed |-> FALSE,
     change |-> NewChange("", NilFile, NilFile, ""), status |-> Unknown,
     err |-> ErrNil, query |-> 0,
     about |-> [err |-> ErrNil, QuotaBytesTotal |-> 0, QuotaBytesUsed |-> 0]]

\* the state before a run, given the options, the direction and the world
Idle(o, push, w) ==
    /\ opts = o
    /\ isPush = push
    /\ fs = w.fs
    /\ remote = w.remote
    /\ index = w.index
    /\ pc = "Start"
    /\ cl = <<>>
    /\ approved = <<>>
    /\ unresolved = <<>>
    /\ err = ErrNil
    /\ reached = {}
    /\ remoteOps = {}
    /\ indexReads = {}
    /\ indexWrites = {}
    /\ jobs = {}
    /\ jobErrs = {}
    /\ indexErrs = {}
    /\ rationer = NoRationer
    /\ procs = <<>>
    /\ mounts = mounted(o.Mount)
    /\ exit = ""
    /\ dirlist = [merged |-> <<>>, clashes |-> <<>>]

\* the state before a run of Push or of the resolver
Begin(o, push, w) == Idle(o, push, w) /\ result = NoResult

(***************************************************************************)
(* Commands.Push                                                           *)
(***************************************************************************)
\* the loop of Push over opts.Sources: the changes of the sources up to the
\* first one that fails to resolve
RECURSIVE resolveSources(_, _)
resolveSources(sources, i) ==
    IF i > Len(sources) THEN [cl |-> <<>>, err |-> ErrNil]
    ELSE LET res == changeListResolve(sources[i], TRUE)
             rest == resolveSources(sources, i + 1)
         IN  IF res.err # ErrNil THEN [cl |-> <<>>, err |-> res.err]
             ELSE [cl |-> res.cl \o rest.cl, err |-> rest.err]

\* lonePush: the changes of one mount point
lonePush(parent, absPath, path) ==
    resolveChangeListRecv(TRUE, parent, absPath, FindByPath(absPath), stat(path))

\* the loop of Push over the mount points: the changes of those whose
\* lonePush succeeds
RECURSIVE mountChanges(_, _)
mountChanges(points, i) ==
    IF i > Len(points) THEN <<>>
    ELSE LET res == lonePush("/", points[i].Name, points[i].MountPath)
         IN  (IF res.err = ErrNil THEN res.cl ELSE <<>>) \o mountChanges(points, i + 1)

\* clearMountPoints: nothing without a mount, else every point is unmounted
\* and the mount directories are removed
clearMountPoints == IF opts.Mount.Nil THEN mounts ELSE {}

\* defer g.clearMountPoints(): it runs when Push returns
Deferred == mounts' = IF pc' = "Done" THEN clearMountPoints ELSE mounts

\* Push, from its start to the end of the loops over the sources and the
\* mount points
PushResolve ==
    /\ pc = "Start"
    /\ \E res \in {resolveSources(opts.Sources, 1)} :
           IF res.err # ErrNil
           THEN /\ pc' = "Done"
                /\ err' = res.err
                /\ cl' = cl
           ELSE /\ pc' = "Resolved"
                /\ err' = err
                /\ cl' = res.cl \o (IF opts.Mount.Nil THEN <<>>
                                     ELSE mountChanges(opts.Mount.Points, 1))
    /\ Deferred
    /\ UNCHANGED <<opts, isPush, fs, remote, index, approved, unresolved, reached,
                   remoteOps, indexReads, indexWrites, jobs, jobErrs, dirlist, result, indexErrs, rationer, procs, exit>>

\* Push: g.resolveConflicts(cl, true) and the return on conflicts
PushConflicts ==
    /\ pc = "Resolved"
    /\ \E rc \in {Commands_resolveConflicts(cl, TRUE)} :
           /\ indexReads' = indexReads \cup rc.reads
           /\ cl' = rc.changes
           /\ IF rc.aborted
              THEN /\ pc' = "Done"
                   /\ err' = ErrConflicts
                   /\ unresolved' = rc.conflicts
                   /\ approved' = approved
              ELSE /\ pc' = "Quota"
                   /\ err' = err
                   /\ unresolved' = unresolved
                   /\ approved' = rc.nonConflicts
    /\ Deferred
    /\ UNCHANGED <<opts, isPush, fs, remote, index, reached, remoteOps,
                   indexWrites, jobs, jobErrs, dirlist, result, indexErrs, rationer, procs, exit>>

\* PushQuota, were the error of QuotaStatus not returned
PushQuotaIgnoresErr ==
    /\ pc = "Quota"
    /\ \E about \in AboutReplies :
          LET q == QuotaStatus(reduceToSize(cl).srcSize, about)
          IN  IF q.status = Exceeded
              THEN pc' = "QuotaPrompt" /\ err' = q.err
              ELSE pc' = "Print" /\ err' = q.err
    /\ reached' = reached \cup {"about"}
    /\ Deferred
    /\ UNCHANGED <<opts, isPush, fs, remote, index, cl, approved, unresolved,
                   remoteOps, indexReads, indexWrites, jobs, jobErrs, dirlist, result, indexErrs, rationer, procs, exit>>

\* Push: the quota query and its outcome
PushQuota ==
    /\ pc = "Quota"
    /\ \E about \in AboutReplies :
          LET q == QuotaStatus(reduceToSize(cl).srcSize, about)
          IN  IF q.err # ErrNil
              THEN pc' = "Done" /\ err' = q.err
              ELSE IF q.status = Exceeded
                   THEN pc' = "QuotaPrompt" /\ err' = err
                   ELSE pc' = "Print" /\ err' = err
    /\ reached' = reached \cup {"about"}
    /\ Deferred
    /\ UNCHANGED <<opts, isPush, fs, remote, index, cl, approved, unresolved,
                   remoteOps, indexReads, indexWrites, jobs, jobErrs, dirlist, result, indexErrs, rationer, procs, exit>>

\* PushQuotaPrompt, were the answer of the user not looked at
PushQuotaPromptProceeds ==
    /\ pc = "QuotaPrompt"
    /\ \E yes \in BOOLEAN :
          /\ pc' = "Print"
          /\ reached' = reached \cup {"quotaPrompt"}
                            \cup (IF yes THEN {} ELSE {"quotaDeclined"})
    /\ Deferred
    /\ UNCHANGED <<opts, isPush, fs, remote, index, cl, approved, unresolved, err,
                   remoteOps, indexReads, indexWrites, jobs, jobErrs, dirlist, result, indexErrs, rationer, procs, exit>>

\* Push: promptForChanges when the quota would be exceeded
PushQuotaPrompt ==
    /\ pc = "QuotaPrompt"
    /\ \E yes \in BOOLEAN :
          /\ pc' = IF yes THEN "Print" ELSE "Done"
          /\ reached' = reached \cup {"quotaPrompt"}
                            \cup (IF yes THEN {} ELSE {"quotaDeclined"})
    /\ Deferred
    /\ UNCHANGED <<opts, isPush, fs, remote, index, cl, approved, unresolved, err,
                   remoteOps, indexReads, indexWrites, jobs, jobErrs, dirlist, result, indexErrs, rationer, procs, exit>>

\* Push: printChangeList up to the prompt
PushPrint ==
    /\ pc = "Print"
    /\ IF Len(approved) = 0
       THEN pc' = "Done" /\ reached' = reached \cup {"uptodate"}
       ELSE IF ~canPrompt
            THEN pc' = "Play" /\ reached' = reached
            ELSE pc' = "Prompt" /\ reached' = reached \cup {"preview"}
    /\ Deferred
    /\ UNCHANGED <<opts, isPush, fs, remote, index, cl, approved, unresolved, err,
                   remoteOps, indexReads, indexWrites, jobs, jobErrs, dirlist, result, indexErrs, rationer, procs, exit>>

\* printChangeList: promptForChanges
PushPrompt ==
    /\ pc = "Prompt"
    /\ \E yes \in BOOLEAN :
          /\ pc' = IF yes THEN "Play" ELSE "Done"
          /\ reached' = reached \cup {"prompt"}
                            \cup (IF yes THEN {} ELSE {"declined"})
    /\ Deferred
    /\ UNCHANGED <<opts, isPush, fs, remote, index, cl, approved, unresolved, err,
                   remoteOps, indexReads, indexWrites, jobs, jobErrs, dirlist, result, indexErrs, rationer, procs, exit>>

\* playPushChanges: the buckets are filled and scheduled
PushPlay ==
    /\ pc = "Play"
    /\ pc' = "Running"
    /\ jobs' = bucketJobs(approved)
    /\ reached' = reached \cup {"play"}
    /\ Deferred
    /\ UNCHANGED <<opts, isPush, fs, remote, index, cl, approved, unresolved, err,
                   remoteOps, indexReads, indexWrites, jobErrs, dirlist, result, indexErrs, rationer, procs, exit>>

\* the jobs still to run once the job j has returned, were the jobs left
\* dropped when one fails
remainingNoneOnError(js, j, out) == IF out = "remoteErr" THEN {} ELSE js \ {j}

\* the jobs still to run once the job j has returned: what a job returns is
\* not looked at
remaining(js, j, out) == js \ {j}

\* the index is written, were it written whatever the remote call returns
writesIndexAlways(out) == TRUE

\* remoteMod and remoteRemover get to the index only when the remote call
\* returned without error, and the write or the removal may fail
writesIndex(out) == out = "ok"

\* one job of the executor: remoteAdd and remoteMod upsert and then write the
\* index record of the file returned, remoteDelete deletes and then removes the
\* index record; a failing remote call ends the job
RunJob ==
    /\ pc = "Running"
    /\ \E j \in jobs, out \in {"ok", "remoteErr", "indexErr"} :
          /\ out = "ok" \/ Cardinality(jobErrs) + Cardinality(indexErrs) < MaxFailures
          /\ jobs' = remaining(jobs, j, out)
          /\ jobErrs' = IF out = "remoteErr" THEN jobErrs \cup {j} ELSE jobErrs
          /\ indexErrs' = IF out = "indexErr" THEN indexErrs \cup {j} ELSE indexErrs
          /\ IF j.fn = "remoteDelete"
             THEN LET id == j.change.Dest.Id
                  IN  /\ remote' = IF out = "remoteErr" THEN remote
                                   ELSE storeDelete(remote, id)
                      /\ remoteOps' = IF out = "remoteErr" THEN remoteOps
                                      ELSE remoteOps \cup
                                             {[kind |-> "delete", path |-> j.change.Path,
                                               id |-> id]}
                      /\ index' = IF ~writesIndex(out) THEN index
                                  ELSE [i \in (DOMAIN index) \ {id} |-> index[i]]
                      /\ indexWrites' = IF ~writesIndex(out) THEN indexWrites
                                        ELSE indexWrites \cup {id}
             ELSE \E mk \in {remoteMkdirAll(remote, parentPather(j.change.Path))} :
                  \E up \in {upserted(mk.store, mk.file, j.change)} :
                  \E written \in {{md.file : md \in mk.made}
                                    \cup (IF writesIndex(out) THEN {up.file} ELSE {})} :
                  LET rem == up.file
                  IN  /\ remote' = IF out = "remoteErr" THEN mk.store ELSE up.store
                      /\ remoteOps' = remoteOps
                            \cup {[kind |-> "upsert", path |-> md.path, id |-> md.file.Id] :
                                    md \in mk.made}
                            \cup (IF out = "remoteErr" THEN {}
                                  ELSE {[kind |-> "upsert", path |-> j.change.Path,
                                         id |-> rem.Id]})
                      /\ index' = [i \in (DOMAIN index) \cup {f.Id : f \in written} |->
                                     IF \E f \in written : f.Id = i
                                     THEN ToIndex(CHOOSE f \in written : f.Id = i)
                                     ELSE index[i]]
                      /\ indexWrites' = indexWrites \cup {f.Id : f \in written}
    /\ UNCHANGED <<opts, isPush, fs, pc, cl, approved, unresolved, err,
                   reached, indexReads, dirlist, result, rationer, procs, mounts, exit>>

\* playPushChanges returns once every job has run
PushFinish ==
    /\ pc = "Running"
    /\ jobs = {}
    /\ pc' = "Done"
    /\ reached' = reached \cup {"taskFinish"}
    /\ Deferred
    /\ UNCHANGED <<opts, isPush, fs, remote, index, cl, approved, unresolved, err,
                   remoteOps, indexReads, indexWrites, jobs, jobErrs, dirlist, result, indexErrs, rationer, procs, exit>>

\* the options of the Push runs checked: a recursive push with checksums that
\* excludes no operation; the prompt is possible, or off by
\* -no-prompt, or stdout is no terminal
PromptModes == {<<TRUE, FALSE>>, <<TRUE, TRUE>>, <<FALSE, FALSE>>}

PushOptions ==
    {Options(force, noClobber, FALSE, ignoreConflict, ignoreNameClashes, TRUE, {},
             pm[1], FALSE, pm[2]) :
        force \in BOOLEAN, noClobber \in BOOLEAN, ignoreConflict \in BOOLEAN,
        ignoreNameClashes \in BOOLEAN, pm \in PromptModes}

Init ==
    \E o \in PushOptions, w \in LeafWorlds(TRUE, {1}) \cup DirWorlds({TRUE}, BOOLEAN) :
        /\ o.IgnoreNameClashes => w \in DirWorlds({TRUE}, BOOLEAN)
        /\ Begin(o, TRUE, w)

Next ==
    \/ PushResolve
    \/ PushConflicts
    \/ PushQuota
    \/ PushQuotaPrompt
    \/ PushPrint
    \/ PushPrompt
    \/ PushPlay
    \/ RunJob
    \/ PushFinish

Spec == Init /\ [][Next]_vars

(***************************************************************************)
(* The resolver, the conflict resolver and merge as functions of their     *)
(* inputs, in either direction.                                            *)
(***************************************************************************)
\* changeListResolve(relToRoot, fsPath, isPush) of the source path
CallResolve ==
    /\ pc = "Start"
    /\ \E res \in {changeListResolve(opts.Sources[1], isPush)} :
           /\ cl' = res.cl
           /\ err' = res.err
           /\ pc' = IF res.err = ErrNil THEN "Resolved" ELSE "Done"
    /\ UNCHANGED <<opts, isPush, fs, remote, index, approved, unresolved, reached,
                   remoteOps, indexReads, indexWrites, jobs, jobErrs, dirlist, result, indexErrs, rationer, procs, mounts, exit>>

\* g.resolveConflicts(cl, isPush)
CallResolveConflicts ==
    /\ pc = "Resolved"
    /\ \E rc \in {Commands_resolveConflicts(cl, isPush)} :
           /\ cl' = rc.changes
           /\ approved' = rc.nonConflicts
           /\ unresolved' = rc.conflicts
           /\ indexReads' = indexReads \cup rc.reads
    /\ pc' = "Done"
    /\ UNCHANGED <<opts, isPush, fs, remote, index, err, reached, remoteOps,
                   indexWrites, jobs, jobErrs, dirlist, result, indexErrs, rationer, procs, mounts, exit>>

\* merge of the children of the source path
CallMerge ==
    /\ pc = "Start"
    /\ dirlist' = merge(FindByParentId(FindByPath(opts.Sources[1]).Id),
                        list(opts.Sources[1]), opts.IgnoreNameClashes)
    /\ pc' = "Done"
    /\ UNCHANGED <<opts, isPush, fs, remote, index, cl, approved, unresolved, err,
                   reached, remoteOps, indexReads, indexWrites, jobs, jobErrs, result, indexErrs, rationer, procs, mounts, exit>>

\* every combination of the options the resolver reads
ResolveOptions ==
    {Options(force, noClobber, ignoreChecksum, FALSE, ignoreNameClashes, recursive,
             mask, TRUE, FALSE, FALSE) :
        force \in BOOLEAN, noClobber \in BOOLEAN, ignoreChecksum \in BOOLEAN,
        ignoreNameClashes \in BOOLEAN, recursive \in BOOLEAN,
        mask \in SUBSET (Create \cup Update \cup Delete)}

InitResolve ==
    \E o \in ResolveOptions, push \in BOOLEAN,
       w \in LeafWorlds(FALSE, Secs) \cup DirWorlds(BOOLEAN, BOOLEAN) \cup DocDirWorlds :
        Begin(o, push, w)

SpecResolve == InitResolve /\ [][CallResolve]_vars

\* the options conflict resolution reads, on a resolver that drops nothing
ConflictOptions ==
    {Options(FALSE, FALSE, ignoreChecksum, ignoreConflict, FALSE, TRUE, {},
             TRUE, FALSE, FALSE) :
        ignoreChecksum \in BOOLEAN, ignoreConflict \in BOOLEAN}

InitConflict ==
    \E o \in ConflictOptions, push \in BOOLEAN, w \in LeafWorlds(TRUE, Secs) :
        Begin(o, push, w)

NextConflict == CallResolve \/ CallResolveConflicts

SpecConflict == InitConflict /\ [][NextConflict]_vars

MergeOptions ==
    {Options(FALSE, FALSE, FALSE, FALSE, ignoreNameClashes, TRUE, {},
             TRUE, FALSE, FALSE) : ignoreNameClashes \in BOOLEAN}

InitMerge == \E o \in MergeOptions, w \in MergeWorlds : Begin(o, TRUE, w)

SpecMerge == InitMerge /\ [][CallMerge]_vars

(***************************************************************************)
(* Change.Op and fileDifferences on one Change                             *)
(***************************************************************************)
\* the local and the remote Files a Change can point to, nil included
LocalFiles ==
    {NilFile, LocalDir("f")}
    \cup {NewLocalFile("f", FALSE, sz, Seconds(sec), h) :
            sz \in Sizes, sec \in Secs, h \in Hashes}
RemoteFiles == {NilFile, RemoteDir("idf", "f")} \cup RemoteLeaves("idf", "f")

\* the Changes of a push (src local) and of a pull (src remote), any flags
Changes ==
    {[Path |-> "/f", Parent |-> "/",
      Src |-> IF push THEN l ELSE r, Dest |-> IF push THEN r ELSE l,
      Force |-> force, NoClobber |-> noClobber,
      IgnoreConflict |-> ignoreConflict, IgnoreChecksum |-> ignoreChecksum] :
        push \in BOOLEAN, l \in LocalFiles, r \in RemoteFiles,
        force \in BOOLEAN, noClobber \in BOOLEAN,
        ignoreConflict \in BOOLEAN, ignoreChecksum \in BOOLEAN}

\* a world without files
EmptyWorld ==
    [fs |-> LocalTree(<<>>, <<>>), remote |-> RemoteStore(<<>>, <<>>), index |-> <<>>]

\* the options with every flag off
NoOptions ==
    Options(FALSE, FALSE, FALSE, FALSE, FALSE, FALSE, {}, FALSE, FALSE, FALSE)

\* c.Op(), with the mask fileDifferences yields for the two Files
CallOp ==
    /\ pc = "Start"
    /\ LET c == result.change
       IN  result' = [result EXCEPT
                        !.op = Op(c),
                        !.raw = op(c),
                        !.mask = fileDifferences(c.Src, c.Dest, c.IgnoreChecksum),
                        !.hashed = /\ fileDifferencesHashes(c.Src, c.Dest, c.IgnoreChecksum)
                                   /\ md5Hashes(c.Src) \/ md5Hashes(c.Dest),
                        !.change = OpCached(c)]
    /\ pc' = "Done"
    /\ UNCHANGED <<opts, isPush, fs, remote, index, cl, approved, unresolved, err,
                   reached, remoteOps, indexReads, indexWrites, jobs, jobErrs, dirlist, indexErrs, rationer, procs, mounts, exit>>

InitOp ==
    \E c \in Changes :
        /\ Idle(NoOptions, TRUE, EmptyWorld)
        /\ result = [NoResult EXCEPT !.change = c]

SpecOp == InitOp /\ [][CallOp]_vars

(***************************************************************************)
(* Commands.QuotaStatus on one query                                       *)
(***************************************************************************)
\* the replies of Remote.About: a failure, or the quota of the account
QuotaReplies ==
    {[err |-> ErrAbout, QuotaBytesTotal |-> 0, QuotaBytesUsed |-> 0]}
    \cup {[err |-> ErrNil, QuotaBytesTotal |-> t, QuotaBytesUsed |-> u] :
            t \in 0..MaxQuota, u \in 0..MaxQuota}

\* g.QuotaStatus(query)
CallQuotaStatus ==
    /\ pc = "Start"
    /\ LET q == QuotaStatus(result.query, result.about)
       IN  result' = [result EXCEPT !.status = q.status, !.err = q.err]
    /\ pc' = "Done"
    /\ UNCHANGED <<opts, isPush, fs, remote, index, cl, approved, unresolved, err,
                   reached, remoteOps, indexReads, indexWrites, jobs, jobErrs, dirlist, indexErrs, rationer, procs, mounts, exit>>

InitQuota ==
    \E q \in (-1)..MaxQuery, a \in QuotaReplies :
        /\ Idle(NoOptions, TRUE, EmptyWorld)
        /\ result = [NoResult EXCEPT !.query = q, !.about = a]

SpecQuota == InitQuota /\ [][CallQuotaStatus]_vars
(***************************************************************************)
(* playPushChanges: the rationer and the three tries                       *)
(***************************************************************************)
\* capacity := uint64(100)
capacity == 100

\* the sizes of a trie of the runs checked
Buckets == {0, MaxBucket}

\* the tries, were they loaded in the order of precedence: del, add, mod
nextTrieByPrecedence(r) ==
    IF r.pending[3] > 0 THEN 3 ELSE IF r.pending[1] > 0 THEN 1 ELSE 2

\* the tries in the order of the calls of trieOperator: add, mod, del
nextTrie(r) == CHOOSE b \in 1..3 : r.pending[b] > 0 /\ \A k \in 1..(b - 1) : r.pending[k] = 0

\* the rationer takes a job from the loader while fewer than its capacity run
admits(r) == r.running < capacity

\* ration.NewRationer(capacity), rationer.Run() and the tries filled
NewRationer ==
    /\ pc = "Start"
    /\ \E a \in Buckets, m \in Buckets, d \in Buckets :
          rationer' = [pending |-> <<a, m, d>>, running |-> 0, sentinel |-> FALSE]
    /\ pc' = "Loading"
    /\ UNCHANGED <<opts, isPush, fs, remote, index, cl, approved, unresolved, err,
                   reached, remoteOps, indexReads, indexWrites, jobs, jobErrs, dirlist,
                   result, indexErrs, procs, mounts, exit>>

\* trieOperator, were the job started without the rationer admitting it
LoadUngated ==
    /\ pc = "Loading"
    /\ \E b \in 1..3 : rationer.pending[b] > 0
    /\ rationer' = [rationer EXCEPT !.pending[nextTrie(rationer)] = @ - 1,
                                    !.running = @ + 1]
    /\ UNCHANGED <<opts, isPush, fs, remote, index, pc, cl, approved, unresolved, err,
                   reached, remoteOps, indexReads, indexWrites, jobs, jobErrs, dirlist,
                   result, indexErrs, procs, mounts, exit>>

\* trieOperator: loader <- job, for the next node of the trie at hand; the
\* job starts once the rationer takes it
Load ==
    /\ pc = "Loading"
    /\ \E b \in 1..3 : rationer.pending[b] > 0
    /\ admits(rationer)
    /\ rationer' = [rationer EXCEPT !.pending[nextTrie(rationer)] = @ - 1,
                                    !.running = @ + 1]
    /\ UNCHANGED <<opts, isPush, fs, remote, index, pc, cl, approved, unresolved, err,
                   reached, remoteOps, indexReads, indexWrites, jobs, jobErrs, dirlist,
                   result, indexErrs, procs, mounts, exit>>

\* a job returns
JobReturns ==
    /\ pc \in {"Loading", "Waiting"}
    /\ rationer.running > 0
    /\ rationer' = [rationer EXCEPT !.running = @ - 1]
    /\ UNCHANGED <<opts, isPush, fs, remote, index, pc, cl, approved, unresolved, err,
                   reached, remoteOps, indexReads, indexWrites, jobs, jobErrs, dirlist,
                   result, indexErrs, procs, mounts, exit>>

\* loader <- ration.Sentinel, after the three calls of trieOperator
SendSentinel ==
    /\ pc = "Loading"
    /\ \A b \in 1..3 : rationer.pending[b] = 0
    /\ rationer' = [rationer EXCEPT !.sentinel = TRUE]
    /\ pc' = "Waiting"
    /\ UNCHANGED <<opts, isPush, fs, remote, index, cl, approved, unresolved, err,
                   reached, remoteOps, indexReads, indexWrites, jobs, jobErrs, dirlist,
                   result, indexErrs, procs, mounts, exit>>

\* g.taskFinish() and the return, were they not held back by rationer.Wait()
WaitReturnsEarly ==
    /\ pc = "Waiting"
    /\ pc' = "Done"
    /\ reached' = reached \cup {"taskFinish"}
    /\ UNCHANGED <<opts, isPush, fs, remote, index, cl, approved, unresolved, err,
                   remoteOps, indexReads, indexWrites, jobs, jobErrs, dirlist,
                   result, indexErrs, rationer, procs, mounts, exit>>

\* rationer.Wait() returns and g.taskFinish() is called
WaitReturns ==
    /\ pc = "Waiting"
    /\ rationer.running = 0
    /\ pc' = "Done"
    /\ reached' = reached \cup {"taskFinish"}
    /\ UNCHANGED <<opts, isPush, fs, remote, index, cl, approved, unresolved, err,
                   remoteOps, indexReads, indexWrites, jobs, jobErrs, dirlist,
                   result, indexErrs, rationer, procs, mounts, exit>>

InitRation == Begin(NoOptions, TRUE, EmptyWorld)

NextRation ==
    \/ NewRationer
    \/ Load
    \/ JobReturns
    \/ SendSentinel
    \/ WaitReturns

SpecRation == InitRation /\ [][NextRation]_vars

(***************************************************************************)
(* The jobs of playPushChanges step by step: each job is a goroutine, and  *)
(* the remote calls of remoteMod and remoteMkdirAll of different jobs      *)
(* interleave                                                              *)
(***************************************************************************)
\* local trees with a directory d that holds x, or x and y, and remote
\* stores that hold nothing, a file f, or the directory d
MkdirWorlds ==
    {[fs |-> LocalTree(<<LocalDir("d")>>, lk), remote |-> RemoteStore(rk, <<>>),
      index |-> [id \in {} |-> NilIndex]] :
        lk \in {<<LocalLeaf("x", 1)>>, <<LocalLeaf("x", 1), LocalLeaf("y", 1)>>},
        rk \in {<<>>,
                <<NewRemoteFile("idf", "f", FALSE, 1, Seconds(1), "h1", FALSE)>>,
                <<RemoteDir("idd", "d")>>}}

\* the options of these runs: a recursive push
MkdirOptions == Options(FALSE, FALSE, FALSE, FALSE, FALSE, TRUE, {}, FALSE, FALSE, FALSE)

\* the tries are filled from the changes of the source and every job is
\* handed to the rationer, which starts it
StartJobs ==
    /\ pc = "Start"
    /\ \E res \in {changeListResolve(opts.Sources[1], TRUE)} :
           /\ cl' = res.cl
           /\ approved' = res.cl
           /\ jobs' = bucketJobs(res.cl)
           /\ procs' = [j \in jobs' |-> [at |-> "begin", parent |-> NilFile]]
    /\ pc' = "Running"
    /\ reached' = reached \cup {"play"}
    /\ UNCHANGED <<opts, isPush, fs, remote, index, unresolved, err, remoteOps,
                   indexReads, indexWrites, jobErrs, dirlist, result, indexErrs,
                   rationer, mounts, exit>>

\* the index after the record of the remote file f is written
indexed(f) ==
    [i \in (DOMAIN index) \cup {f.Id} |-> IF i = f.Id THEN ToIndex(f) ELSE index[i]]

\* remoteMod up to the first lookup of remoteMkdirAll: the parent directory
\* is there, or has to be made
MkdirLookup(j) ==
    /\ pc = "Running"
    /\ j \in DOMAIN procs
    /\ j.fn # "remoteDelete"
    /\ procs[j].at = "begin"
    /\ LET retrFile == FindByPath(parentPather(j.change.Path))
       IN  procs' = [procs EXCEPT ![j] = IF retrFile.Nil THEN [@ EXCEPT !.at = "rest"]
                                         ELSE [at |-> "upsert", parent |-> retrFile]]
    /\ UNCHANGED <<opts, isPush, fs, remote, index, pc, cl, approved, unresolved, err,
                   reached, remoteOps, indexReads, indexWrites, jobs, jobErrs, dirlist,
                   result, indexErrs, rationer, mounts, exit>>

\* remoteMkdirAll: the lookup of the rest of the path, which the paths of
\* DirPaths always find as it is the root
MkdirRest(j) ==
    /\ pc = "Running"
    /\ j \in DOMAIN procs
    /\ procs[j].at = "rest"
    /\ LET parent == FindByPath(remotePathSplit(parentPather(j.change.Path)).dir)
       IN  /\ ~parent.Nil
           /\ procs' = [procs EXCEPT ![j] = [at |-> "create", parent |-> parent]]
    /\ UNCHANGED <<opts, isPush, fs, remote, index, pc, cl, approved, unresolved, err,
                   reached, remoteOps, indexReads, indexWrites, jobs, jobErrs, dirlist,
                   result, indexErrs, rationer, mounts, exit>>

\* remoteMkdirAll: the directory is created and its index record written
MkdirCreate(j) ==
    /\ pc = "Running"
    /\ j \in DOMAIN procs
    /\ procs[j].at = "create"
    /\ \E new \in {UpsertByComparison(remote, procs[j].parent.Id,
                                      newRemoteDir(parentPather(j.change.Path)),
                                      parentPather(j.change.Path))} :
          /\ remote' = new.store
          /\ remoteOps' = remoteOps \cup {[kind |-> "upsert",
                                           path |-> parentPather(j.change.Path),
                                           id |-> new.file.Id]}
          /\ index' = indexed(new.file)
          /\ indexWrites' = indexWrites \cup {new.file.Id}
          /\ procs' = [procs EXCEPT ![j] = [at |-> "upsert", parent |-> new.file]]
    /\ UNCHANGED <<opts, isPush, fs, pc, cl, approved, unresolved, err, reached,
                   indexReads, jobs, jobErrs, dirlist, result, indexErrs, rationer,
                   mounts, exit>>

\* remoteMod: the upsert below the parent directory and the index write
JobUpsert(j) ==
    /\ pc = "Running"
    /\ j \in DOMAIN procs
    /\ procs[j].at = "upsert"
    /\ \E up \in {upserted(remote, procs[j].parent, j.change)} :
          /\ remote' = up.store
          /\ remoteOps' = remoteOps \cup {[kind |-> "upsert", path |-> j.change.Path,
                                           id |-> up.file.Id]}
          /\ index' = indexed(up.file)
          /\ indexWrites' = indexWrites \cup {up.file.Id}
    /\ procs' = [procs EXCEPT ![j].at = "done"]
    /\ jobs' = jobs \ {j}
    /\ UNCHANGED <<opts, isPush, fs, pc, cl, approved, unresolved, err, reached,
                   indexReads, jobErrs, dirlist, result, indexErrs, rationer,
                   mounts, exit>>

\* remoteRemover: the delete and the removal of the index record
JobRemove(j) ==
    /\ pc = "Running"
    /\ j \in DOMAIN procs
    /\ j.fn = "remoteDelete"
    /\ procs[j].at = "begin"
    /\ remote' = storeDelete(remote, j.change.Dest.Id)
    /\ remoteOps' = remoteOps \cup {[kind |-> "delete", path |-> j.change.Path,
                                     id |-> j.change.Dest.Id]}
    /\ index' = [i \in (DOMAIN index) \ {j.change.Dest.Id} |-> index[i]]
    /\ indexWrites' = indexWrites \cup {j.change.Dest.Id}
    /\ procs' = [procs EXCEPT ![j].at = "done"]
    /\ jobs' = jobs \ {j}
    /\ UNCHANGED <<opts, isPush, fs, pc, cl, approved, unresolved, err, reached,
                   indexReads, jobErrs, dirlist, result, indexErrs, rationer,
                   mounts, exit>>

\* rationer.Wait() returns: every job has returned
JobsDone ==
    /\ pc = "Running"
    /\ DOMAIN procs # {}
    /\ \A j \in DOMAIN procs : procs[j].at = "done"
    /\ pc' = "Done"
    /\ UNCHANGED <<opts, isPush, fs, remote, index, cl, approved, unresolved, err,
                   reached, remoteOps, indexReads, indexWrites, jobs, jobErrs, dirlist,
                   result, indexErrs, rationer, procs, mounts, exit>>

InitMkdir == \E w \in MkdirWorlds : Begin(MkdirOptions, TRUE, w)

NextMkdir ==
    \/ StartJobs
    \/ \E j \in DOMAIN procs : MkdirLookup(j)
    \/ \E j \in DOMAIN procs : MkdirRest(j)
    \/ \E j \in DOMAIN procs : MkdirCreate(j)
    \/ \E j \in DOMAIN procs : JobUpsert(j)
    \/ \E j \in DOMAIN procs : JobRemove(j)
    \/ JobsDone

SpecMkdir == InitMkdir /\ [][NextMkdir]_vars

(***************************************************************************)
(* resolveChangeListRecv: the goroutines of the chunks of a directory with *)
(* more than chunkSize children.  Each pair of the directory is a file of  *)
(* one side only, so that its childChanges is the one change of its path,  *)
(* which is written as the number of the pair.                             *)
(***************************************************************************)
\* chunkSize := 100
chunkSize == 100

\* chunkCount for a dirlist of srcLen pairs
chunkCount(srcLen) == (srcLen \div chunkSize) + (IF srcLen % chunkSize # 0 THEN 1 ELSE 0)

\* dirlist[i:end] of the chunk j, counted from 1: its first pair and its last
chunkFirst(j) == (j - 1) * chunkSize + 1
chunkLast(j, srcLen) == IF j * chunkSize >= srcLen THEN srcLen ELSE j * chunkSize

\* the goroutines of the chunks are started; each is at the first pair of
\* its chunk and has not read *cl
FanOut ==
    /\ pc = "Start"
    /\ \E srcLen \in (chunkSize + 1)..(chunkSize + MaxExtra) :
          procs' = [j \in 1..chunkCount(srcLen) |->
                      [next |-> chunkFirst(j), last |-> chunkLast(j, srcLen),
                       reading |-> FALSE, read |-> <<>>]]
    /\ pc' = "FanOut"
    /\ UNCHANGED <<opts, isPush, fs, remote, index, cl, approved, unresolved, err,
                   reached, remoteOps, indexReads, indexWrites, jobs, jobErrs, dirlist,
                   result, indexErrs, rationer, mounts, exit>>

\* *cl = append(*cl, childChanges...), first half: the goroutine of chunk j
\* has the changes of its next pair and reads *cl
AppendRead(j) ==
    /\ pc = "FanOut"
    /\ j \in DOMAIN procs
    /\ ~procs[j].reading
    /\ procs[j].next <= procs[j].last
    /\ procs' = [procs EXCEPT ![j].reading = TRUE, ![j].read = cl]
    /\ UNCHANGED <<opts, isPush, fs, remote, index, pc, cl, approved, unresolved, err,
                   reached, remoteOps, indexReads, indexWrites, jobs, jobErrs, dirlist,
                   result, indexErrs, rationer, mounts, exit>>

\* second half: it writes what it read, with the changes appended, to *cl;
\* no lock is held in between
AppendWrite(j) ==
    /\ pc = "FanOut"
    /\ j \in DOMAIN procs
    /\ procs[j].reading
    /\ cl' = Append(procs[j].read, procs[j].next)
    /\ procs' = [procs EXCEPT ![j].reading = FALSE, ![j].read = <<>>, ![j].next = @ + 1]
    /\ UNCHANGED <<opts, isPush, fs, remote, index, pc, approved, unresolved, err,
                   reached, remoteOps, indexReads, indexWrites, jobs, jobErrs, dirlist,
                   result, indexErrs, rationer, mounts, exit>>

\* wg.Wait() returns and resolveChangeListRecv returns cl
FanIn ==
    /\ pc = "FanOut"
    /\ \A j \in DOMAIN procs : procs[j].next > procs[j].last
    /\ pc' = "Done"
    /\ UNCHANGED <<opts, isPush, fs, remote, index, cl, approved, unresolved, err,
                   reached, remoteOps, indexReads, indexWrites, jobs, jobErrs, dirlist,
                   result, indexErrs, rationer, procs, mounts, exit>>

InitFanOut == Begin(NoOptions, TRUE, EmptyWorld)

NextFanOut ==
    \/ FanOut
    \/ \E j \in DOMAIN procs : AppendRead(j)
    \/ \E j \in DOMAIN procs : AppendWrite(j)
    \/ FanIn

SpecFanOut == InitFanOut /\ [][NextFanOut]_vars

(***************************************************************************)
(* Commands.Push with mount points, and the signals that may reach the     *)
(* process while Push runs                                                 *)
(***************************************************************************)
\* a mount of the local file g at the remote path /g, in a mount directory
\* made for it
GMount ==
    [Nil |-> FALSE, Points |-> <<[Name |-> "/g", MountPath |-> "/g"]>>,
     CreatedMountDir |-> "/mnt", ShortestMountRoot |-> ""]

SignalOptions ==
    {[Options(FALSE, FALSE, FALSE, ignoreConflict, FALSE, TRUE, {}, pm[1], FALSE, pm[2])
        EXCEPT !.Mount = GMount] :
        ignoreConflict \in BOOLEAN, pm \in PromptModes}

\* os.Interrupt reaches the process.  Once signal.Notify has been called the
\* goroutine of Push receives it, clears the mount points and exits with
\* status 1; before that call, early in PushResolve, the process ends as the
\* signal has it.
Interrupt ==
    /\ pc \notin {"Done", "Exited"}
    /\ \E notified \in (IF pc = "Start" THEN BOOLEAN ELSE {TRUE}) :
          IF notified
          THEN mounts' = clearMountPoints /\ exit' = "1"
          ELSE mounts' = mounts /\ exit' = "interrupt"
    /\ pc' = "Exited"
    /\ UNCHANGED <<opts, isPush, fs, remote, index, cl, approved, unresolved, err,
                   reached, remoteOps, indexReads, indexWrites, jobs, jobErrs, dirlist,
                   result, indexErrs, rationer, procs>>

\* os.Kill reaches the process: it cannot be caught, whatever signal.Notify
\* was asked, and the process ends at once
Kill ==
    /\ pc \notin {"Done", "Exited"}
    /\ exit' = "killed"
    /\ pc' = "Exited"
    /\ UNCHANGED <<opts, isPush, fs, remote, index, cl, approved, unresolved, err,
                   reached, remoteOps, indexReads, indexWrites, jobs, jobErrs, dirlist,
                   result, indexErrs, rationer, procs, mounts>>

InitSignal == \E o \in SignalOptions, w \in LeafWorlds(FALSE, {1}) : Begin(o, TRUE, w)

NextSignal ==
    \/ PushResolve
    \/ PushConflicts
    \/ PushQuota
    \/ PushQuotaPrompt
    \/ PushPrint
    \/ PushPrompt
    \/ PushPlay
    \/ RunJob
    \/ PushFinish
    \/ Interrupt
    \/ Kill

SpecSignal == InitSignal /\ [][NextSignal]_vars

(***************************************************************************)
(* Commands.Push in a context with an ignore file                          *)
(***************************************************************************)
\* the regexp of an ignore file, as the set of the paths and names it matches
Regexp(matches) == [Nil |-> FALSE, Matches |-> matches]

\* no ignore file, and ignore files whose regexp matches g wherever it
\* stands, the path /g alone, or f wherever it stands
IgnoreFiles == {NilRegexp, Regexp({"g", "/g"}), Regexp({"/g"}), Regexp({"f", "/f"})}

\* the sources of the runs
SourceLists == {<<"/">>, <<"/g">>, <<"/f", "/g">>, <<"/g", "/f">>}

IgnoreOptions ==
    {[New(Options(force, FALSE, FALSE, FALSE, FALSE, TRUE, {}, pm[1], FALSE, pm[2]), ig)
        EXCEPT !.Sources = srcs] :
        force \in BOOLEAN, pm \in PromptModes, ig \in IgnoreFiles, srcs \in SourceLists}

InitIgnore == \E o \in IgnoreOptions, w \in LeafWorlds(FALSE, {1}) : Begin(o, TRUE, w)

SpecIgnore == InitIgnore /\ [][Next]_vars

(***************************************************************************)
(* Commands.PushPiped                                                      *)
(***************************************************************************)
ErrExists == "already exists remotely"
ErrDoc == "is a GoogleDoc/Sheet document cannot be pushed to raw"
ErrUpsert == "upsert failed"
ErrLookup == "lookup failed"

\* fauxLocalFile(base)
fauxLocalFile(name) ==
    [Nil |-> FALSE, Id |-> "", Name |-> name, IsDir |-> FALSE, Size |-> 0,
     ModTime |-> RoundSecond(Seconds(MaxSecs)), Md5Checksum |-> "", Blob |-> "",
     CacheChecksum |-> FALSE, ExportLinks |-> FALSE]

\* remote stores that hold nothing, a file f, a doc-like f, or a directory d
PipedWorlds ==
    {[fs |-> LocalTree(<<>>, <<>>), remote |-> RemoteStore(rk, <<>>),
      index |-> [id \in {} |-> NilIndex]] :
        rk \in {<<>>,
                <<NewRemoteFile("idf", "f", FALSE, 1, Seconds(1), "h1", FALSE)>>,
                <<RemoteDoc("idf", "f")>>,
                <<RemoteDir("idd", "d")>>}}

PipedOptions ==
    {[Options(force, FALSE, FALSE, FALSE, FALSE, FALSE, {}, FALSE, FALSE, FALSE)
        EXCEPT !.Sources = srcs] :
        force \in BOOLEAN,
        srcs \in {<<"/g">>, <<"/f", "/g">>, <<"/g", "/f">>, <<"/g", "/g">>,
                  <<"/d/x", "/g">>}}

\* the source is not pushed, were Force not looked at
alreadyExistsNever(rem) == FALSE

\* rem != nil && !g.opts.Force
alreadyExists(rem) == ~rem.Nil /\ ~opts.Force

\* PushPiped enters its loop over the sources
PipedStart ==
    /\ pc = "Start"
    /\ pc' = "Piped"
    /\ procs' = [i |-> 1, inflight |-> FALSE, log |-> <<>>]
    /\ UNCHANGED <<opts, isPush, fs, remote, index, cl, approved, unresolved, err,
                   reached, remoteOps, indexReads, indexWrites, jobs, jobErrs, dirlist,
                   result, indexErrs, rationer, mounts, exit>>

\* one source of the loop, up to the call of upsertByComparison: the run ends
\* with an error when the lookup fails, when the source is there and Force is
\* off or when it is doc-like, and without one when its parent cannot be made
PipedLookup ==
    /\ pc = "Piped"
    /\ ~procs.inflight
    /\ procs.i <= Len(opts.Sources)
    /\ LET relToRootPath == opts.Sources[procs.i]
           rem == FindByPath(relToRootPath)
           parentPath == parentPather(relToRootPath)
           upload == procs' = [procs EXCEPT !.inflight = TRUE,
                                            !.log = Append(@, [i |-> procs.i,
                                                               existed |-> ~rem.Nil])]
           still == UNCHANGED <<remote, remoteOps, index, indexWrites>>
       IN  \E resErr \in {ErrNil, ErrLookup} :
           IF resErr # ErrNil
           THEN pc' = "Done" /\ err' = resErr /\ procs' = procs /\ still
           ELSE IF alreadyExists(rem)
           THEN pc' = "Done" /\ err' = ErrExists /\ procs' = procs /\ still
           ELSE IF hasExportLinks(rem)
           THEN pc' = "Done" /\ err' = ErrDoc /\ procs' = procs /\ still
           ELSE IF ~FindByPath(parentPath).Nil
           THEN pc' = pc /\ err' = err /\ upload /\ still
           ELSE \E made \in BOOLEAN :
                  IF ~made
                  THEN pc' = "Done" /\ err' = err /\ procs' = procs /\ still
                  ELSE \E mk \in {remoteMkdirAll(remote, parentPath)} :
                          /\ pc' = pc
                          /\ err' = err
                          /\ upload
                          /\ remote' = mk.store
                          /\ remoteOps' = remoteOps \cup
                                {[kind |-> "upsert", path |-> md.path, id |-> md.file.Id] :
                                    md \in mk.made}
                          /\ index' = [id \in (DOMAIN index) \cup {md.file.Id : md \in mk.made} |->
                                         IF id \in DOMAIN index THEN index[id]
                                         ELSE ToIndex((CHOOSE md \in mk.made : md.file.Id = id).file)]
                          /\ indexWrites' = indexWrites \cup {md.file.Id : md \in mk.made}
    /\ UNCHANGED <<opts, isPush, fs, cl, approved, unresolved, reached, indexReads,
                   jobs, jobErrs, dirlist, result, indexErrs, rationer, mounts, exit>>

\* upsertByComparison(os.Stdin, &args) returns: with an error, which ends the
\* run, with no file, or with the file uploaded, whose index record is then
\* written, if it can be
PipedUpsert ==
    /\ pc = "Piped"
    /\ procs.inflight
    /\ \E out \in {"ok", "remoteErr", "nil", "indexErr"} :
          LET relToRootPath == opts.Sources[procs.i]
              found == FindByPath(relToRootPath)
              rem == IF found.Nil THEN fauxLocalFile(pathSplitter(relToRootPath).base)
                     ELSE found
              parent == FindByPath(parentPather(relToRootPath))
          IN  \E up \in {UpsertByComparison(remote, parent.Id, rem, relToRootPath)} :
                /\ pc' = IF out = "remoteErr" THEN "Done" ELSE pc
                /\ err' = IF out = "remoteErr" THEN ErrUpsert ELSE err
                /\ procs' = [procs EXCEPT !.inflight = FALSE,
                                          !.i = IF out = "remoteErr" THEN @ ELSE @ + 1]
                /\ remote' = IF out \in {"ok", "indexErr"} THEN up.store ELSE remote
                /\ remoteOps' = IF out \in {"ok", "indexErr"}
                                THEN remoteOps \cup {[kind |-> "upsert",
                                                      path |-> relToRootPath,
                                                      id |-> up.file.Id]}
                                ELSE remoteOps
                /\ index' = IF out = "ok"
                            THEN [id \in (DOMAIN index) \cup {up.file.Id} |->
                                    IF id = up.file.Id THEN ToIndex(up.file) ELSE index[id]]
                            ELSE index
                /\ indexWrites' = IF out = "ok" THEN indexWrites \cup {up.file.Id}
                                  ELSE indexWrites
    /\ UNCHANGED <<opts, isPush, fs, cl, approved, unresolved, reached, indexReads,
                   jobs, jobErrs, dirlist, result, indexErrs, rationer, mounts, exit>>

\* the loop is over and PushPiped returns
PipedReturn ==
    /\ pc = "Piped"
    /\ ~procs.inflight
    /\ procs.i > Len(opts.Sources)
    /\ pc' = "Done"
    /\ UNCHANGED <<opts, isPush, fs, remote, index, cl, approved, unresolved, err,
                   reached, remoteOps, indexReads, indexWrites, jobs, jobErrs, dirlist,
                   result, indexErrs, rationer, procs, mounts, exit>>

InitPiped == \E o \in PipedOptions, w \in PipedWorlds : Begin(o, TRUE, w)

NextPiped ==
    \/ PipedStart
    \/ PipedLookup
    \/ PipedUpsert
    \/ PipedReturn

SpecPiped == InitPiped /\ [][NextPiped]_vars

(***************************************************************************)
(* playPushChanges: the progress bar, the channel of the bytes transferred *)
(* and its reader.  procs holds the reports each running upload job has    *)
(* still to send (left), the upload jobs and the number of delete jobs     *)
(* running (live, deletes), whether the reader holds a value received and  *)
(* not yet added (held), the calls of taskAdd so far (adds), and whether   *)
(* the bar is finished, the channel closed and the reader gone.            *)
(***************************************************************************)
UNCHANGED_Progress ==
    UNCHANGED <<opts, isPush, fs, remote, index, cl, approved, unresolved, err,
                remoteOps, indexReads, indexWrites, jobs, jobErrs, dirlist,
                result, indexErrs, rationer, mounts, exit>>

\* g.taskStart(totalSize), go func() { for n := range progressChan ... }(), and
\* the jobs of the tries loaded
ProgressStart ==
    /\ pc = "Start"
    /\ \E n \in 0..MaxUploads, d \in 0..MaxUploads :
       \E left \in [1..n -> 0..MaxReports] :
          procs' = [left |-> left, live |-> 1..n, deletes |-> d, held |-> FALSE,
                    adds |-> 0, finished |-> FALSE, closed |-> FALSE, gone |-> FALSE]
    /\ pc' = "Running"
    /\ reached' = reached
    /\ UNCHANGED_Progress

\* the remote client sends a number of bytes on the channel in the upload of
\* job j and the reader receives it
JobReports ==
    /\ pc = "Running"
    /\ ~procs.held
    /\ \E j \in procs.live :
          /\ procs.left[j] > 0
          /\ procs' = [procs EXCEPT !.left[j] = @ - 1, !.held = TRUE]
    /\ UNCHANGED <<pc, reached>>
    /\ UNCHANGED_Progress

\* the reader: g.taskAdd(int64(n)) with the value received
ReaderAdds ==
    /\ pc # "Start"
    /\ procs.held
    /\ procs' = [procs EXCEPT !.held = FALSE, !.adds = @ + 1]
    /\ UNCHANGED <<pc, reached>>
    /\ UNCHANGED_Progress

\* an upload job returns, all its reports sent
UploadReturns ==
    /\ pc = "Running"
    /\ \E j \in procs.live :
          /\ procs.left[j] = 0
          /\ procs' = [procs EXCEPT !.live = @ \ {j}]
    /\ UNCHANGED <<pc, reached>>
    /\ UNCHANGED_Progress

\* remoteRemover: the deferred g.taskAdd(change.Dest.Size) and the return
DeleteReturns ==
    /\ pc = "Running"
    /\ procs.deletes > 0
    /\ procs' = [procs EXCEPT !.deletes = @ - 1, !.adds = @ + 1]
    /\ UNCHANGED <<pc, reached>>
    /\ UNCHANGED_Progress

\* rationer.Wait() returns, every job has returned, and g.taskFinish()
ProgressFinish ==
    /\ pc = "Running"
    /\ procs.live = {}
    /\ procs.deletes = 0
    /\ procs' = [procs EXCEPT !.finished = TRUE]
    /\ pc' = "Finished"
    /\ reached' = reached \cup {"taskFinish"}
    /\ UNCHANGED_Progress

\* playPushChanges returns: the deferred close(g.rem.progressChan)
ProgressReturn ==
    /\ pc = "Finished"
    /\ procs' = [procs EXCEPT !.closed = TRUE]
    /\ pc' = "Done"
    /\ reached' = reached
    /\ UNCHANGED_Progress

\* the range over the closed channel ends and the reader returns
ReaderExits ==
    /\ pc = "Done"
    /\ procs.closed
    /\ ~procs.held
    /\ ~procs.gone
    /\ procs' = [procs EXCEPT !.gone = TRUE]
    /\ UNCHANGED <<pc, reached>>
    /\ UNCHANGED_Progress

InitProgress == Begin(NoOptions, TRUE, EmptyWorld)

NextProgress ==
    \/ ProgressStart
    \/ JobReports
    \/ ReaderAdds
    \/ UploadReturns
    \/ DeleteReturns
    \/ ProgressFinish
    \/ ProgressReturn
    \/ ReaderExits

SpecProgress == InitProgress /\ [][NextProgress]_vars

(***************************************************************************)
(* Properties                                                              *)
(***************************************************************************)
ChangesOf(changes) == {changes[i] : i \in 1..Len(changes)}
NamesOf(files) == {files[i].Name : i \in 1..Len(files)}

\* c is a clashing modification as long as it is not marked ignoreConflict
RawConflict(c) == Op([c EXCEPT !.IgnoreConflict = FALSE]) = OpModConflict

\* the index record of the file of c
IndexOf(c, push) == deserializeIndex(conflictFileId(c, push))

\* the local side was last written in the second the index records
LocalMatchesTime(c, push) ==
    Unix(RoundSecond(localSide(c, push).ModTime)) = IndexOf(c, push).ModTime

\* the Md5Checksum field of the local side is the checksum the index records
LocalMatchesSum(c, push) ==
    localSide(c, push).Md5Checksum = IndexOf(c, push).Md5Checksum

\* the remote side was last written in the second the index records
RemoteUnchanged(c, push) ==
    Unix(remoteSide(c, push).ModTime) = IndexOf(c, push).ModTime

\* the push-only clause of conflict applies to c
PushClause(c, push) == push /\ RemoteUnchanged(c, push)

\* the conflict resolver leaves a change of the list unresolved
LeavesUnresolved(changes) ==
    Len(resolveConflicts(sift(changes).conflicts, TRUE).unresolved) >= 1

\* the conflict resolution of the run is over and the index store is as it was
\* when it ran
PastConflicts == pc \notin {"Start", "Resolved"} /\ indexWrites = {}

\* C1: in a Push with ignoreConflict off, once conflict resolution has left a
\* ModConflict change unresolved the run has ended with the conflicts error,
\* without any remote upsert or delete, without any index write, and without
\* reaching the quota query, the preview, the prompt or the executor.
C1_UnresolvedAborts ==
    (~opts.IgnoreConflict /\ PastConflicts /\ LeavesUnresolved(cl))
        => /\ pc = "Done"
           /\ err = ErrConflicts
           /\ remoteOps = {}
           /\ indexWrites = {}
           /\ jobs = {}
           /\ reached = {}

C1_Witness ==
    /\ ~opts.IgnoreConflict
    /\ PastConflicts
    /\ LeavesUnresolved(cl)
    /\ pc = "Done"
    /\ Len(unresolved) >= 1

\* the changes of cl conflict resolution has looked at: clashing modifications
\* that have an index record and to which the push-only clause does not apply
Indexed(c) ==
    /\ RawConflict(c)
    /\ ~IndexOf(c, isPush).Nil
    /\ ~PushClause(c, isPush)

ResolverRan == pc = "Done" /\ err = ErrNil /\ ~opts.IgnoreConflict

\* C2 as claimed: such a change is treated as spurious only if the local
\* modTime AND the local checksum both equal the index record; with only one
\* of the two equal it stays unresolved.
C2_Claimed ==
    ResolverRan =>
        \A c \in ChangesOf(cl) :
            Indexed(c) =>
                /\ c.IgnoreConflict
                      => (LocalMatchesTime(c, isPush) /\ LocalMatchesSum(c, isPush))
                /\ (LocalMatchesTime(c, isPush) # LocalMatchesSum(c, isPush))
                      => c \in ChangesOf(unresolved)

\* C2 as amended: such a change is treated as spurious exactly if the local
\* modTime OR the Md5Checksum field of the local side equals the index record;
\* it stays unresolved exactly if both differ.
C2_EitherMatchResolves ==
    ResolverRan =>
        \A c \in ChangesOf(cl) :
            Indexed(c) =>
                /\ c.IgnoreConflict
                      <=> (LocalMatchesTime(c, isPush) \/ LocalMatchesSum(c, isPush))
                /\ c \in ChangesOf(unresolved)
                      <=> ~(LocalMatchesTime(c, isPush) \/ LocalMatchesSum(c, isPush))

C2_Witness ==
    /\ ResolverRan
    /\ \E c \in ChangesOf(cl) :
          /\ Indexed(c)
          /\ LocalMatchesTime(c, isPush)
          /\ ~LocalMatchesSum(c, isPush)
          /\ c.IgnoreConflict
          /\ c \in ChangesOf(approved)

\* C3: a clashing modification whose file id has no index record is resolved
\* as spurious: it is marked ignoreConflict and is in the resolved list, not in
\* the unresolved one.
C3_UnindexedResolved ==
    ResolverRan =>
        \A c \in ChangesOf(cl) :
            (RawConflict(c) /\ IndexOf(c, isPush).Nil)
                => /\ c.IgnoreConflict
                   /\ c \in ChangesOf(approved)
                   /\ c \notin ChangesOf(unresolved)

C3_Witness ==
    /\ ResolverRan
    /\ \E c \in ChangesOf(cl) :
          /\ RawConflict(c)
          /\ IndexOf(c, isPush).Nil
          /\ c.IgnoreConflict

\* a clashing modification of the run whose file has no index record
Unindexed(c) == RawConflict(c) /\ IndexOf(c, TRUE).Nil

\* C4 as claimed: a Push that meets a clashing modification without index
\* record leaves it ModConflict and fails with the conflicts error.
C4_Claimed ==
    (~opts.IgnoreConflict /\ PastConflicts /\ \E c \in ChangesOf(cl) : Unindexed(c))
        => /\ pc = "Done"
           /\ err = ErrConflicts
           /\ \E c \in ChangesOf(cl) : Unindexed(c) /\ Op(c) = OpModConflict

\* C4 as amended: a Push marks a clashing modification without index record
\* ignoreConflict, so that its Op is Mod, and hands it on; the run fails with
\* the conflicts error only on account of another change, one that has an
\* index record.
C4_UnindexedPasses ==
    (~opts.IgnoreConflict /\ PastConflicts)
        => \A c \in ChangesOf(cl) :
              Unindexed(c)
                  => /\ c.IgnoreConflict
                     /\ Op(c) = OpMod
                     /\ err # ErrConflicts => c \in ChangesOf(approved)
                     /\ err = ErrConflicts
                           => \E u \in ChangesOf(unresolved) : ~IndexOf(u, TRUE).Nil

C4_Witness ==
    /\ ~opts.IgnoreConflict
    /\ pc = "Running"
    /\ indexWrites = {}
    /\ \E j \in jobs : Unindexed(j.change) /\ j.fn = "remoteMod"

\* C5: on push a clashing modification whose remote side was last written in
\* the second the index records is resolved as spurious whatever the local
\* side is; on pull that alone resolves nothing: with the local time and the
\* local checksum both different from the index the change stays unresolved.
C5_OneSidedPushOnly ==
    ResolverRan =>
        \A c \in ChangesOf(cl) :
            (RawConflict(c) /\ ~IndexOf(c, isPush).Nil /\ RemoteUnchanged(c, isPush))
                => IF isPush
                   THEN c.IgnoreConflict /\ c \in ChangesOf(approved)
                   ELSE (~LocalMatchesTime(c, isPush) /\ ~LocalMatchesSum(c, isPush))
                           => (~c.IgnoreConflict /\ c \in ChangesOf(unresolved))

C5_Witness ==
    /\ ResolverRan
    /\ isPush
    /\ \E c \in ChangesOf(cl) :
          /\ RawConflict(c)
          /\ ~IndexOf(c, isPush).Nil
          /\ RemoteUnchanged(c, isPush)
          /\ ~LocalMatchesTime(c, isPush)
          /\ ~LocalMatchesSum(c, isPush)
          /\ c.IgnoreConflict

\* C6: with the ignoreConflict option set no index record is read, no change is
\* modified and the approved list is the change list of the resolver, in its
\* order and with its clashing modifications.
C6_IgnoreConflictSkips ==
    (opts.IgnoreConflict /\ pc \notin {"Start", "Resolved"})
        => /\ indexReads = {}
           /\ err # ErrConflicts
           /\ approved = cl
           /\ (remoteOps = {} /\ resolveSources(opts.Sources, 1).err = ErrNil)
                 => cl = resolveSources(opts.Sources, 1).cl

C6_Witness ==
    /\ opts.IgnoreConflict
    /\ pc = "Running"
    /\ \E j \in jobs : Op(j.change) = OpModConflict
    /\ \E c \in ChangesOf(approved) : Op(c) # OpModConflict

\* some remote children of the listing share a name
HasClash(files) ==
    \E i, j \in 1..Len(files) : i # j /\ files[i].Name = files[j].Name

\* C7 as claimed: with ignoreNameClashes off, a clash among the remote children
\* of the target or of the directory /d below it makes the resolve fail with
\* the clash error, and the Push ends there without a remote mutation.
C7_Claimed ==
    (/\ ~opts.IgnoreNameClashes
     /\ pc # "Start"
     /\ HasClash(FindByParentId("root")) \/ HasClash(FindByParentId("idd")))
        => /\ pc = "Done"
           /\ err = ErrClashes
           /\ remoteOps = {}

\* the children merge is called with, and the names on both sides
MergedRemotes == FindByParentId(FindByPath(opts.Sources[1]).Id)
MergedLocals == list(opts.Sources[1])

\* the number of DirLists of the result that carry the name n
Emitted(n) ==
    Cardinality({i \in 1..Len(dirlist.merged) : dirListName(dirlist.merged[i]) = n})

\* the local child named n, nil for none
LocalNamed(n) ==
    IF n \in NamesOf(MergedLocals)
    THEN MergedLocals[CHOOSE i \in 1..Len(MergedLocals) : MergedLocals[i].Name = n]
    ELSE NilFile

\* remote child i is the first of its name
FirstOfName(i) == \A j \in 1..(i - 1) : MergedRemotes[j].Name # MergedRemotes[i].Name

C9_Claimed ==
    pc # "Start" =>
        \A c \in ChangesOf(cl) : (crudValue(c) \cap opts.ExcludeCrudMask) = {}

\* the paths of the remote children of the target that are doc-like
DocPaths ==
    {joinPath(opts.Sources[1], FindByParentId("root")[i].Name) :
        i \in {k \in 1..Len(FindByParentId("root")) :
                 hasExportLinks(FindByParentId("root")[k])}}

\* C10: on push no change is returned for a path whose remote entry is
\* doc-like, nor for a path below it, and no change has a doc-like dest,
\* whatever the local file, force, noClobber and the exclude mask are.
C10_PushSparesDocs ==
    (isPush /\ pc # "Start")
        => \A c \in ChangesOf(cl) :
              /\ ~hasExportLinks(c.Dest)
              /\ c.Path \notin DocPaths
              /\ c.Parent \notin DocPaths

C10_Witness ==
    /\ isPush
    /\ pc # "Start"
    /\ opts.Force
    /\ opts.Recursive
    /\ opts.ExcludeCrudMask = {}
    /\ "/d" \in DocPaths
    /\ Len(list("/d")) >= 1
    /\ Len(cl) >= 1

\* the Change Change.Op was called on, and its two Files
Called == pc = "Done"
TheChange == result.change
BothNil == TheChange.Src.Nil /\ TheChange.Dest.Nil
BothPresent == ~TheChange.Src.Nil /\ ~TheChange.Dest.Nil

\* C11 as claimed: a Change with nil src and nil dest has Op None under every
\* setting of force, noClobber, ignoreConflict and ignoreChecksum.
C11_Claimed == (Called /\ BothNil) => result.op = OpNone

\* C11 as amended: a Change with nil src and nil dest has the raw operation
\* None; Op is None when force is off and Add when force is set, whatever the
\* other three flags are.
C11_BothNilOp ==
    (Called /\ BothNil)
        => /\ result.raw = OpNone
           /\ result.op = IF TheChange.Force THEN OpAdd ELSE OpNone

C11_Witness ==
    /\ Called
    /\ BothNil
    /\ TheChange.Force
    /\ TheChange.NoClobber
    /\ result.op = OpAdd

C13_Claimed ==
    opts.NoClobber
        => /\ \A c \in ChangesOf(cl) : c.NoClobber /\ Op(c) = OpAdd
           /\ \A j \in jobs : j.fn = "remoteAdd"
           /\ \A o \in remoteOps : o.kind = "upsert"

\* what hashing the content of a File yields
Content(f) == IF f.Blob # "" THEN f.Blob ELSE f.Md5Checksum

\* the reference table of the operations
Reference(c) ==
    IF c.Src.Nil /\ c.Dest.Nil THEN OpNone
    ELSE IF c.Dest.Nil THEN OpAdd
    ELSE IF c.Src.Nil THEN OpDelete
    ELSE IF c.Src.IsDir # c.Dest.IsDir THEN OpMod
    ELSE IF c.Src.IsDir /\ c.Dest.IsDir THEN OpNone
    ELSE IF c.Src.Size # c.Dest.Size \/ Content(c.Src) # Content(c.Dest)
         THEN IF c.IgnoreConflict THEN OpMod ELSE OpModConflict
    ELSE IF c.Src.ModTime # c.Dest.ModTime THEN OpMod
    ELSE OpNone

\* C14: with force and noClobber off Op is the operation of the reference
\* table; two files of equal size and checksum whose modTime differs give Mod.
C14_OpTable ==
    (Called /\ ~TheChange.Force /\ ~TheChange.NoClobber)
        => /\ result.op = Reference(TheChange)
           /\ (/\ BothPresent
               /\ ~TheChange.Src.IsDir
               /\ ~TheChange.Dest.IsDir
               /\ TheChange.Src.Size = TheChange.Dest.Size
               /\ Content(TheChange.Src) = Content(TheChange.Dest)
               /\ TheChange.Src.ModTime # TheChange.Dest.ModTime)
                  => result.op = OpMod

C14_Witness ==
    /\ Called
    /\ ~TheChange.Force
    /\ ~TheChange.NoClobber
    /\ ~TheChange.IgnoreConflict
    /\ BothPresent
    /\ ~TheChange.Src.IsDir
    /\ ~TheChange.Dest.IsDir
    /\ TheChange.Src.Size = TheChange.Dest.Size
    /\ Content(TheChange.Src) = Content(TheChange.Dest)
    /\ TheChange.Src.ModTime # TheChange.Dest.ModTime
    /\ result.op = OpMod

\* C15 as claimed: for two present files and ignoreChecksum set,
\* fileDifferences raises the checksum bit exactly when it raises the size bit.
C15_Claimed ==
    (Called /\ BothPresent /\ TheChange.IgnoreChecksum)
        => (checksumDiffers(result.mask) <=> sizeDiffers(result.mask))

\* C16 as claimed: a resolution with the ignoreChecksum option set hashes no
\* local blob, so no local File of the change list carries a cached checksum.
C16_Claimed ==
    (opts.IgnoreChecksum /\ pc # "Start")
        => \A c \in ChangesOf(cl) : localSide(c, isPush).Md5Checksum = ""

\* the confirmation can be asked: stdout is a terminal, quiet and noPrompt are off
MayAsk == opts.StdoutIsTty /\ ~opts.Quiet /\ ~opts.NoPrompt

\* the executor has been started
Started == pc = "Running" \/ "play" \in reached \/ remoteOps # {}

\* C17 as claimed: in every run that starts a job the preview and the summary
\* have been emitted before, also when the confirmation is skipped.
C17_Claimed == Started => "preview" \in reached

\* C17 as amended: in a run in which the confirmation can be asked the
\* preview and the summary are emitted, and the confirmation asked, before
\* the executor starts; in a run in which the confirmation is skipped no
\* preview and no summary is emitted at all.
C17_PreviewOnlyWhenAsking ==
    /\ (Started /\ MayAsk) => ("preview" \in reached /\ "prompt" \in reached)
    /\ ~MayAsk => "preview" \notin reached

C17_Witness ==
    /\ ~MayAsk
    /\ pc = "Running"
    /\ remoteOps # {}
    /\ "preview" \notin reached

\* C18 as claimed: without a terminal, or with quiet or noPrompt set, the user
\* is never asked anything; otherwise a run with changes asks for the
\* confirmation before it starts the executor, and a negative answer
\* schedules no job.
C18_Claimed ==
    /\ ~MayAsk => (reached \cap {"prompt", "quotaPrompt"}) = {}
    /\ (MayAsk /\ Started) => "prompt" \in reached
    /\ "declined" \in reached => (~Started /\ jobs = {})

\* the user has declined to go on with a push that exceeds the quota
QuotaDeclined == "quotaDeclined" \in reached

\* C19 as claimed: a push that exceeds the quota and is not confirmed mutates
\* nothing and returns an error.
C19_Claimed == QuotaDeclined => (remoteOps = {} /\ err # ErrNil)

\* C19 as amended: a push that exceeds the quota and is not confirmed ends
\* there, without preview, job, remote mutation or index write, and returns
\* no error.
C19_DeclineReturnsNil ==
    QuotaDeclined
        => /\ pc = "Done"
           /\ err = ErrNil
           /\ remoteOps = {}
           /\ indexWrites = {}
           /\ jobs = {}
           /\ ~Started
           /\ "preview" \notin reached

C19_Witness ==
    /\ QuotaDeclined
    /\ pc = "Done"
    /\ Len(approved) >= 1
    /\ err = ErrNil

\* the query of QuotaStatus is answered: it is not negative, About succeeds and
\* the total is positive
Answered ==
    /\ pc = "Done"
    /\ result.query >= 0
    /\ result.about.err = ErrNil
    /\ result.about.QuotaBytesTotal >= 1

ToBeUsed == result.query + result.about.QuotaBytesUsed
Total == result.about.QuotaBytesTotal

\* C20: an answered query yields no error and the class of query + used
\* against the total: Exceeded from 100%, else Barely below 50%, else
\* HalfwayExceeded below 80%, else AlmostExceeded.
C20_QuotaClasses ==
    Answered
        => /\ result.err = ErrNil
           /\ result.status \in {Barely, HalfwayExceeded, AlmostExceeded, Exceeded}
           /\ result.status = Exceeded <=> ToBeUsed >= Total
           /\ result.status = Barely <=> 100 * ToBeUsed < 50 * Total
           /\ result.status = HalfwayExceeded
                 <=> (100 * ToBeUsed >= 50 * Total /\ 100 * ToBeUsed < 80 * Total)
           /\ result.status = AlmostExceeded
                 <=> (100 * ToBeUsed >= 80 * Total /\ ToBeUsed < Total)

C20_Witness ==
    /\ Answered
    /\ result.query >= 1
    /\ result.about.QuotaBytesUsed >= 1
    /\ 5 * ToBeUsed = 4 * Total
    /\ result.status = AlmostExceeded

\* the quota query of the run failed
QuotaFailed == err \in {ErrAbout, ErrQuota}

\* the run has gone past the quota query to the change list: the note that
\* all is up to date, the preview or the executor
PastQuota == "uptodate" \in reached \/ "preview" \in reached \/ Started

\* C21 as claimed: every quota class but Exceeded, Unknown included, lets Push
\* continue to the preview, the confirmation and the execution.
C21_Claimed ==
    (pc = "Done" /\ "about" \in reached /\ "quotaPrompt" \notin reached) => PastQuota

\* C21 as amended: a failing About query or a total below 1 yields the class
\* Unknown together with an error, and Push returns that error at once,
\* before preview, confirmation and execution; a run whose query yields one
\* of the other classes below Exceeded continues past the quota query.
C21_UnknownEndsPush ==
    /\ pc = "Quota"
          => \A a \in AboutReplies, size \in {reduceToSize(cl).srcSize} :
                (a.err # ErrNil \/ a.QuotaBytesTotal < 1)
                    => /\ QuotaStatus(size, a).status = Unknown
                       /\ QuotaStatus(size, a).err # ErrNil
    /\ QuotaFailed
          => /\ pc = "Done"
             /\ "about" \in reached
             /\ "quotaPrompt" \notin reached
             /\ ~PastQuota
             /\ remoteOps = {}
             /\ indexWrites = {}
    /\ (pc = "Done" /\ "about" \in reached /\ "quotaPrompt" \notin reached /\ ~QuotaFailed)
          => PastQuota

C21_Witness ==
    /\ pc = "Done"
    /\ err = ErrQuota
    /\ "about" \in reached
    /\ Len(approved) >= 1

\* C22: while playPushChanges runs, the jobs started and not yet returned
\* are at most 100, the capacity of the one rationer that the add, the mod
\* and the delete trie are loaded into.
C22_AtMostCapacity ==
    /\ capacity = 100
    /\ rationer.running <= capacity

\* the rationer is full of jobs of the add and of the mod trie while jobs
\* are still to be loaded
C22_Witness ==
    /\ pc = "Loading"
    /\ rationer.running = capacity
    /\ rationer.pending[1] = 0
    /\ rationer.pending[2] > 0
    /\ rationer.pending[2] < MaxBucket

\* the remote directories at the path /d
RemoteDirsAt == {i \in 1..Len(FindByParentId("root")) :
                   FindByParentId("root")[i].Name = "d" /\ FindByParentId("root")[i].IsDir}

\* C23 as claimed: whatever the interleaving of the add and the mod jobs
\* below a directory and of the add job of that directory, once all jobs have
\* returned the remote holds exactly one directory at the path of that
\* directory.
C23_Claimed == (DOMAIN procs # {} /\ pc = "Done") => Cardinality(RemoteDirsAt) = 1

\* the pairs of the directory whose chunks are resolved
FannedOut == {i \in 1..(chunkSize + MaxExtra) : \E j \in DOMAIN procs : i <= procs[j].last}

\* C24 as claimed: for a directory of more than one chunk the list returned
\* holds, whatever the interleaving of the goroutines, the changes of every
\* pair exactly once.
C24_Claimed ==
    (pc = "Done" /\ Len(procs) >= 2)
        => \A i \in FannedOut : Cardinality({k \in 1..Len(cl) : cl[k] = i}) = 1

\* C25 as claimed: however a run of Push with mount points ends, by its
\* return or by an interrupt or a kill signal at any point of the run, every
\* mount point is unmounted and the mount directory removed, and after a
\* signal the exit status is 1.
C25_Claimed ==
    (~opts.Mount.Nil /\ pc \in {"Done", "Exited"})
        => /\ mounts = {}
           /\ pc = "Exited" => exit = "1"

\* the remote call of the job j has been made and has returned without error
Performed(j) ==
    \E o \in remoteOps :
        /\ o.path = j.change.Path
        /\ o.kind = (IF j.fn = "remoteDelete" THEN "delete" ELSE "upsert")

\* the id under which the job j writes or removes an index record
IndexIdOf(j) == IF j.change.Dest.Nil THEN "new" \o j.change.Path ELSE j.change.Dest.Id

\* playPushChanges has returned
Played == pc = "Done" /\ "play" \in reached

\* C26: a job whose remote call fails does not end the run: every other job
\* scheduled is started and runs to its end, no index record is written for
\* the failed job, and playPushChanges gets to taskFinish and returns, without
\* error.
C26_FailureDoesNotAbort ==
    (pc = "Running" \/ Played)
        => \A scheduled \in {bucketJobs(approved)} :
              /\ pc = "Running"
                    => jobs \cup jobErrs \cup {j \in scheduled : Performed(j)} = scheduled
              /\ Played
                    => /\ "taskFinish" \in reached
                       /\ err = ErrNil
                       /\ jobs = {}
                       /\ \A j \in scheduled \ jobErrs : Performed(j)
                       /\ \A j \in jobErrs :
                             /\ j \in scheduled
                             /\ ~Performed(j)
                             /\ IndexIdOf(j) \notin indexWrites

C26_Witness ==
    /\ Played
    /\ jobErrs # {}
    /\ \E j \in bucketJobs(approved) \ jobErrs : Performed(j)
    /\ "taskFinish" \in reached

\* C27: an add or modify job writes an index record only once the upsert has
\* returned a file without error, and writes it under the id of that file;
\* a failing index write does not fail the job: it is not among the failed
\* jobs, its remote change stays, and the run returns no error.
C27_IndexAfterUpsert ==
    /\ \A id \in indexWrites : \E o \in remoteOps : o.id = id
    /\ \A o \in remoteOps :
          (o.kind = "upsert" /\ o.id \in indexWrites /\ o.id \in DOMAIN index)
              => index[o.id].FileId = o.id
    /\ \A j \in indexErrs :
          /\ j \notin jobErrs
          /\ Performed(j)
          /\ j.fn # "remoteDelete"
                => \E o \in remoteOps :
                      /\ o.path = j.change.Path
                      /\ o.kind = "upsert"
                      /\ o.id \notin indexWrites
                      /\ o.id \in storeIds(remote)
    /\ Played => err = ErrNil

C27_Witness ==
    /\ Played
    /\ \E j \in indexErrs :
          /\ j.fn = "remoteAdd"
          /\ Performed(j)
          /\ IndexIdOf(j) \notin indexWrites
          /\ IndexIdOf(j) \in storeIds(remote)

\* the changes of the list approved that the executor ran: for each trie and
\* path the last one
Ran == {j.change : j \in bucketJobs(approved)}

\* the same source resolved again, for a push and for a pull
PushAgain == changeListResolve(opts.Sources[1], TRUE)
PullAgain == changeListResolve(opts.Sources[1], FALSE)

\* a push without force has run and each of its jobs has succeeded
Pushed == Played /\ ~opts.Force /\ jobErrs = {}

IgnoredSources == {i \in 1..Len(opts.Sources) : ignored(opts.Sources[i])}

\* the source i is the first one whose resolve fails
FirstToFail(i) ==
    \A k \in 1..(i - 1) : changeListResolve(opts.Sources[k], TRUE).err = ErrNil

\* C29: with force off, the resolve of a source path that the ignore regexp
\* matches fails with the error that the path is set to be ignored, and Push
\* returns at that source with that error, before any remote mutation; with
\* force on the ignore regexp is not loaded, no path is ignored and the
\* sources are processed.
C29_IgnoredSourceFails ==
    /\ \A i \in IgnoredSources :
          /\ ~opts.Force
          /\ changeListResolve(opts.Sources[i], TRUE) = [cl |-> <<>>, err |-> ErrIgnored]
          /\ pc # "Start"
                => /\ pc = "Done"
                   /\ err # ErrNil
                   /\ FirstToFail(i) => err = ErrIgnored
                   /\ reached = {}
                   /\ remoteOps = {}
                   /\ indexWrites = {}
    /\ opts.Force => (opts.IgnoreRegexp.Nil /\ err # ErrIgnored)
    /\ err = ErrIgnored => IgnoredSources # {}

C29_Witness ==
    /\ pc = "Done"
    /\ err = ErrIgnored
    /\ opts.Sources = <<"/f", "/g">>
    /\ 2 \in IgnoredSources
    /\ ~stat("/g").Nil
    /\ changeListResolve("/f", TRUE).cl # <<>>

\* PushPiped is under way or has returned
Piping == pc \in {"Piped", "Done"} /\ procs # <<>>

\* the sources whose upload has been started, in the order of the starts
Uploads == [k \in 1..Len(procs.log) |-> procs.log[k].i]

\* C30: PushPiped uploads its sources one at a time, in their order: an
\* upload starts only when that of every source before has returned; the
\* first source that is there remotely with force off, is doc-like, or whose
\* upsert fails ends the run, so that no source after it is uploaded; and a
\* source that is there remotely is not uploaded while force is off.
C30_PipedIsSerial ==
    Piping
        => /\ \A k \in 1..Len(Uploads) : \A m \in 1..(k - 1) : Uploads[m] < Uploads[k]
           /\ \A k \in 1..Len(Uploads) : Uploads[k] <= procs.i
           /\ procs.inflight
                 => (Len(Uploads) >= 1 /\ Uploads[Len(Uploads)] = procs.i)
           /\ (pc = "Done" /\ err # ErrNil) => procs.i <= Len(opts.Sources)
           /\ (pc = "Done" /\ err = ErrNil /\ procs.i <= Len(opts.Sources))
                 => FindByPath(parentPather(opts.Sources[procs.i])).Nil
           /\ \A k \in 1..Len(procs.log) : procs.log[k].existed => opts.Force
           /\ \A o \in remoteOps :
                 \E k \in 1..Len(Uploads) :
                     o.path \in {opts.Sources[Uploads[k]], parentPather(opts.Sources[Uploads[k]])}

\* the first source has been uploaded and the second has ended the run, as
\* it is there remotely
C30_Witness ==
    /\ Piping
    /\ pc = "Done"
    /\ err = ErrExists
    /\ procs.i = 2
    /\ Uploads = <<1>>
    /\ Cardinality(remoteOps) = 1

\* the local children of the source that the resolver has no change for
\* although they are on one side only
LeftOut ==
    {f \in NamesOf(list(opts.Sources[1])) \ NamesOf(FindByParentId("root")) :
        \A c \in ChangesOf(cl) : c.Path # joinPath(opts.Sources[1], f)}

\* C31 as claimed: when the pair /d of the source fails to resolve, as the
\* remote /d holds two children of one name, the pairs that come after it
\* are resolved all the same and their changes are in the result: the local
\* file g has its change.
C31_Claimed ==
    (/\ pc = "Resolved"
     /\ ~opts.IgnoreNameClashes
     /\ HasClash(FindByParentId("idd"))
     /\ ~HasClash(FindByParentId("root")))
        => LeftOut = {}

\* the remote children that come after the first of their name, in stream order
LaterOfName == SelectSeq([i \in 1..Len(MergedRemotes) |-> i], LAMBDA i : ~FirstOfName(i))

\* the remote child of the name of child i that comes last before it
PrevOfName(i) ==
    CHOOSE j \in 1..(i - 1) :
        /\ MergedRemotes[j].Name = MergedRemotes[i].Name
        /\ \A l \in (j + 1)..(i - 1) : MergedRemotes[l].Name # MergedRemotes[i].Name

\* C32: with ignoreNameClashes off, of the k remote children of one name merge
\* emits the first alone, in one DirList, and reports k - 1 clashes, the
\* children r1..r(k-1) that a later child displaced, each when the next of the
\* name is met; a name of one child has no clash.
C32_ClashesDisplaced ==
    (pc = "Done" /\ ~opts.IgnoreNameClashes) =>
        /\ Len(dirlist.clashes) = Len(LaterOfName)
        /\ \A c \in 1..Len(LaterOfName) :
              dirlist.clashes[c] = MergedRemotes[PrevOfName(LaterOfName[c])]
        /\ \A i \in 1..Len(MergedRemotes) :
              /\ FirstOfName(i) <=>
                    \E k \in 1..Len(dirlist.merged) : dirlist.merged[k].remote = MergedRemotes[i]
              /\ Cardinality({k \in 1..Len(dirlist.merged) :
                                 dirlist.merged[k].remote = MergedRemotes[i]}) <= 1
        /\ \A n \in NamesOf(MergedRemotes) :
              Cardinality({c \in 1..Len(dirlist.clashes) : dirlist.clashes[c].Name = n})
                  = Cardinality({i \in 1..Len(MergedRemotes) : MergedRemotes[i].Name = n}) - 1

C32_Witness ==
    /\ pc = "Done"
    /\ ~opts.IgnoreNameClashes
    /\ Len(MergedRemotes) = 3
    /\ \A i \in 1..3 : MergedRemotes[i].Name = MergedRemotes[1].Name
    /\ dirlist.clashes = <<MergedRemotes[1], MergedRemotes[2]>>
    /\ \E k \in 1..Len(dirlist.merged) : dirlist.merged[k].remote = MergedRemotes[1]

\* the place of the remote child f in the remote stream
StreamPlace(f) == CHOOSE i \in 1..Len(MergedRemotes) : MergedRemotes[i] = f

\* the DirLists of the result that hold the local child l
ListsOf(l) == {i \in 1..Len(dirlist.merged) : dirlist.merged[i].local = l}

\* C33: the DirLists with a remote side come first, in the order of the remote
\* stream, and the local-only ones after them; every local child is in exactly
\* one DirList; the two sides of a DirList have one name; and a local child is
\* local-only exactly when no emitted remote child has its name.
C33_MergeOrder ==
    pc = "Done" =>
        \E m \in {dirlist.merged} :
            /\ \A i, j \in 1..Len(m) :
                  /\ (i < j /\ ~m[j].remote.Nil) => ~m[i].remote.Nil
                  /\ (i < j /\ ~m[j].remote.Nil)
                        => StreamPlace(m[i].remote) < StreamPlace(m[j].remote)
                  /\ m[i].remote.Nil => ~m[i].local.Nil
            /\ \A i \in 1..Len(m) :
                  /\ ~m[i].remote.Nil => m[i].remote \in {MergedRemotes[k] : k \in 1..Len(MergedRemotes)}
                  /\ (~m[i].remote.Nil /\ ~m[i].local.Nil) => m[i].remote.Name = m[i].local.Name
            /\ \A k \in 1..Len(MergedLocals) :
                  /\ Cardinality(ListsOf(MergedLocals[k])) = 1
                  /\ (\A i \in ListsOf(MergedLocals[k]) : m[i].remote.Nil)
                        <=> ~\E i \in 1..Len(m) :
                                ~m[i].remote.Nil /\ m[i].remote.Name = MergedLocals[k].Name

C33_Witness ==
    /\ pc = "Done"
    /\ Len(dirlist.merged) = 3
    /\ ~dirlist.merged[1].remote.Nil /\ ~dirlist.merged[1].local.Nil
    /\ ~dirlist.merged[2].remote.Nil /\ dirlist.merged[2].local.Nil
    /\ dirlist.merged[3].remote.Nil /\ ~dirlist.merged[3].local.Nil
    /\ Len(MergedLocals) = 2

\* C34 as claimed: the changes handed to the preview and to the executor are
\* the change list of the resolver in its order, also when conflict resolution
\* has disregarded a conflict of the list.
C34_Claimed ==
    (pc = "Quota" /\ \E i \in 1..Len(cl) : RawConflict(cl[i])) => approved = cl

\* C35 as claimed: every approved change that is not None gets its job, also
\* when several changes have one path: once playPushChanges has returned and
\* no job has failed, every remote file an approved change deletes has been
\* deleted.
C35_Claimed ==
    (Played /\ jobErrs = {}) =>
        \A i \in 1..Len(approved) :
            Op(approved[i]) = OpDelete =>
                \E o \in remoteOps : o.kind = "delete" /\ o.id = approved[i].Dest.Id

\* C36: taskFinish is called and playPushChanges returns only once the
\* sentinel has been sent, every job of the three tries has been loaded and
\* every job has returned; from then on no job is running or still to start.
C36_FinishAfterJobs ==
    /\ ("taskFinish" \in reached \/ pc = "Done")
          => /\ rationer.sentinel
             /\ rationer.running = 0
             /\ \A b \in 1..3 : rationer.pending[b] = 0
    /\ rationer.sentinel => \A b \in 1..3 : rationer.pending[b] = 0
    /\ pc = "Done" <=> "taskFinish" \in reached

\* the sentinel has been sent while as many jobs as the rationer admits are
\* still running: rationer.Wait() holds taskFinish back
C36_Witness ==
    /\ pc = "Waiting"
    /\ rationer.sentinel
    /\ rationer.running = capacity
    /\ "taskFinish" \notin reached

\* C37 as claimed: jobs start in the order of precedence, the deletions
\* first: while the delete trie holds jobs and none of them has been started,
\* no job of the add or of the mod trie runs.
C37_Claimed ==
    (pc = "Loading" /\ rationer.pending[3] = MaxBucket) => rationer.running = 0

\* C37 as amended: the changes are not sorted by precedence; the jobs are
\* started trie by trie in the order add, mod, delete, so that no delete job
\* is started while a job of the add or of the mod trie is still to start,
\* and no mod job while an add job is.
C37_AddModDelete ==
    pc # "Start" =>
        /\ rationer.pending[1] > 0
              => rationer.pending[2] \in Buckets /\ rationer.pending[3] \in Buckets
        /\ rationer.pending[2] > 0 => rationer.pending[3] \in Buckets
        /\ rationer.pending[3] \notin Buckets
              => rationer.pending[1] = 0 /\ rationer.pending[2] = 0

\* every add job has been started and some of the mod jobs, and jobs run
\* while no delete job has been started
C37_Witness ==
    /\ pc = "Loading"
    /\ rationer.pending[1] = 0
    /\ rationer.pending[2] \notin Buckets
    /\ rationer.pending[3] = MaxBucket
    /\ rationer.running > 0

\* the size, modTime and dirType bits of a mask
ThreeBits(mask) == mask \cap (DifferSize \cup DifferModTime \cup DifferDirType)

\* C38: the size, modTime and dirType bits of fileDifferences are the same
\* when the two present files are exchanged, whatever ignoreChecksum is; a
\* file that has a checksum or is a directory has no difference to itself;
\* and with a nil operand all four bits are raised.
C38_SymmetricReflexive ==
    Called =>
        /\ BothPresent
              => ThreeBits(result.mask)
                   = ThreeBits(fileDifferences(TheChange.Dest, TheChange.Src,
                                               TheChange.IgnoreChecksum))
        /\ \A x \in {TheChange.Src, TheChange.Dest}, ic \in BOOLEAN :
              (~x.Nil /\ (x.IsDir \/ x.Md5Checksum # ""))
                  => fileDifferences(x, x, ic) = DifferNone
        /\ ~BothPresent
              => /\ result.mask = DifferMd5Checksum \cup DifferSize \cup DifferModTime
                                     \cup DifferDirType
                 /\ result.mask = fileDifferences(TheChange.Dest, TheChange.Src,
                                                  TheChange.IgnoreChecksum)

\* two files whose size and modTime differ, compared with ignoreChecksum set
C38_Witness ==
    /\ Called
    /\ BothPresent
    /\ TheChange.IgnoreChecksum
    /\ ~TheChange.Src.IsDir
    /\ TheChange.Dest.Md5Checksum # ""
    /\ TheChange.Src.Size < TheChange.Dest.Size
    /\ TheChange.Src.ModTime # TheChange.Dest.ModTime
    /\ ThreeBits(result.mask) = DifferSize \cup DifferModTime

\* how often the change c is in the list changes
Count(changes, c) == Cardinality({i \in 1..Len(changes) : changes[i] = c})

\* C39: with ignoreConflict off, when conflict resolution does not abort, the
\* approved list holds the changes of the resolver, each as often as the
\* resolver list does, and none of them has the Op ModConflict: the conflicts
\* that were disregarded are marked ignoreConflict and evaluate to Mod.
C39_ApprovedPermutes ==
    (pc = "Done" /\ ~opts.IgnoreConflict /\ unresolved = <<>>) =>
        /\ Len(approved) = Len(cl)
        /\ \A c \in ChangesOf(cl) \cup ChangesOf(approved) : Count(approved, c) = Count(cl, c)
        /\ \A i \in 1..Len(approved) :
              /\ Op(approved[i]) # OpModConflict
              /\ RawConflict(approved[i])
                    => approved[i].IgnoreConflict /\ Op(approved[i]) = OpMod

\* a push whose conflict was disregarded: it is approved as a Mod, behind the
\* addition that the resolver found after it
C39_Witness ==
    /\ pc = "Done"
    /\ isPush
    /\ ~opts.IgnoreConflict
    /\ unresolved = <<>>
    /\ Len(cl) = 2
    /\ RawConflict(cl[1])
    /\ approved = <<cl[2], cl[1]>>
    /\ Op(cl[2]) = OpAdd

\* C40 as claimed: in every interleaving each call of taskAdd, by the reader
\* of the channel or by a delete job, comes before taskFinish: the bar is not
\* updated once it is finished.
C40_Claimed == [][(pc # "Start" /\ procs'.adds # procs.adds) => ~procs.finished]_vars
====
